---- MODULE Spec2Model ----
(***************************************************************************)
(* A model of the update-payload applier                                   *)
(* (host/lib/update_payload/applier.py and common.py).                     *)
(*                                                                         *)
(* Files are sequences of bytes (small naturals, 0 is the NUL byte).  A    *)
(* SHA-256 digest is modelled as an ideal, collision-free hash: the digest *)
(* of a byte string is a record that determines the string.  Python        *)
(* integers are unbounded; the only 64-bit quantity, the pseudo-extent     *)
(* marker, is scaled to 16 bits.                                           *)
(***************************************************************************)
EXTENDS Integers, Sequences, FiniteSets, TLC

VARIABLES
  pc,          \* position of the calling thread in Run / the driver of a unit specification
  args,        \* the arguments of Run: a path or None for each
  payload,     \* the payload object: kind, manifest, data blob
  files,       \* the file system: path -> content, or NoFile
  step,        \* position inside _ApplyToPartition
  op_idx,      \* index of the next operation of the list being applied
  handles,     \* the partition file handles that are open
  error,       \* the error Run raised, or NoError
  executed,    \* <<partition, index>> of each operation started, in order
  io_log,      \* the partition-file and payload-file accesses made so far
  tmp_files,   \* the temporary files that exist
  snap,        \* ghost: the destination as it was when it was opened for the operations
  failed_at,   \* ghost: <<pc, step, op_idx>> where Run raised, or <<>>
  unit         \* input and result of the unit specifications; in Run, ghost: what bspatch last did

vars == <<pc, args, payload, files, step, op_idx, handles, error, executed,
          io_log, tmp_files, snap, failed_at, unit>>

-----------------------------------------------------------------------------
(* Values *)

None == "None"
\* An entry of the file system: a file with its content, or no file.
NoFile == [exists |-> FALSE, data |-> <<>>]
File(data) == [exists |-> TRUE, data |-> data]
NoError == "NoError"

\* common.PSEUDO_EXTENT_MARKER, ctypes.c_uint64(-1).value, scaled to 16 bits.
PSEUDO_EXTENT_MARKER == 65535

\* _VerifySha256: block_length = 1024 * 1024
block_length == 1048576

\* sys.maxint (of a 32-bit build)
maxint == 2147483647

Min(a, b) == IF a < b THEN a ELSE b
Max(a, b) == IF a > b THEN a ELSE b

Fill(v, n) == [i \in 1..n |-> v]

\* Python's s[a:b] for 0 <= a, 0 <= b.
Slice(s, a, b) == SubSeq(s, Min(a, Len(s)) + 1, Min(b, Len(s)))

Extent(start, num) == [start_block |-> start, num_blocks |-> num]

-----------------------------------------------------------------------------
(* File objects: a content and explicit offsets. *)

\* file_obj.seek(off); file_obj.read(n): at most n bytes, fewer at end of file.
ReadAt(content, off, n) == Slice(content, off, off + n)

\* file_obj.seek(off); file_obj.write(data): a write past the end of the file
\* fills the gap with zeros; an empty write changes nothing.
WriteAt(content, off, data) ==
  IF Len(data) = 0 THEN content
  ELSE [i \in 1..Max(Len(content), off + Len(data)) |->
          IF i > off /\ i <= off + Len(data) THEN data[i - off]
          ELSE IF i <= Len(content) THEN content[i]
          ELSE 0]

IoEvent(kind, off, len) == [kind |-> kind, off |-> off, len |-> len]

-----------------------------------------------------------------------------
(* _VerifySha256 *)

\* hashlib.sha256().digest() of the bytes fed to the hasher.
Sha256(data) == [sha256 |-> data]

RECURSIVE VerifyLoop(_, _, _, _)
VerifyLoop(content, pos, max_length, hashed) ==
  IF max_length = 0 THEN hashed
  ELSE LET read_length == Min(max_length, block_length)
           data == ReadAt(content, pos, read_length)
       IN IF Len(data) = 0 THEN hashed
          ELSE VerifyLoop(content, pos + Len(data), max_length - Len(data),
                          hashed \o data)

\* Mutant of VerifySha256: the digests are computed and never compared.
VerifySha256Unchecked(content, expected_hash, max_length) == NoError

\* The error _VerifySha256 raises on a file just opened, or NoError.
VerifySha256(content, expected_hash, max_length) ==
  LET ml == IF max_length < 0 THEN maxint ELSE max_length
      actual_hash == Sha256(VerifyLoop(content, 0, ml, <<>>))
  IN IF actual_hash # expected_hash THEN "HashMismatch" ELSE NoError

-----------------------------------------------------------------------------
(* _ReadExtents *)

RECURSIVE ReadExtentsLoop(_, _, _, _, _, _, _)
ReadExtentsLoop(content, extents, i, block_size, max_length, data, io) ==
  IF i > Len(extents) \/ max_length = 0
  THEN [data |-> data, err |-> NoError, io |-> io]
  ELSE LET ex == extents[i]
           off == ex.start_block * block_size
           whole == ex.num_blocks * block_size
           read_length == IF max_length > 0 THEN Min(max_length, whole) ELSE whole
           left == IF max_length > 0 THEN max_length - read_length ELSE max_length
           got == ReadAt(content, off, read_length)
           io2 == Append(io, IoEvent("read", off, read_length))
       IN \* array.fromfile raises EOFError when fewer items are available
          IF Len(got) < read_length
          THEN [data |-> data \o got, err |-> "EOFError", io |-> io2]
          ELSE ReadExtentsLoop(content, extents, i + 1, block_size, left,
                               data \o got, io2)

\* Mutant of ReadExtents: max_length is not passed on to the loop.
ReadExtentsUncapped(content, extents, block_size, max_length) ==
  ReadExtentsLoop(content, extents, 1, block_size, -1, <<>>, <<>>)

ReadExtents(content, extents, block_size, max_length) ==
  ReadExtentsLoop(content, extents, 1, block_size, max_length, <<>>, <<>>)

-----------------------------------------------------------------------------
(* _WriteExtents *)

RECURSIVE WriteExtentsLoop(_, _, _, _, _, _, _)
WriteExtentsLoop(content, data, extents, i, block_size, data_offset, io) ==
  LET data_length == Len(data) IN
  IF i > Len(extents)
  THEN [content |-> content, io |-> io,
        err |-> IF data_offset < data_length THEN "ExtentMismatch" ELSE NoError]
  ELSE IF data_offset = data_length
  THEN [content |-> content, io |-> io, err |-> "ExtentMismatch"]
  ELSE LET ex == extents[i]
           write_length == Min(data_length - data_offset,
                               ex.num_blocks * block_size)
           off == ex.start_block * block_size
           data_view == SubSeq(data, data_offset + 1, data_offset + write_length)
       IN WriteExtentsLoop(WriteAt(content, off, data_view), data, extents,
                           i + 1, block_size, data_offset + write_length,
                           Append(io, IoEvent("write", off, write_length)))

\* Mutant of WriteExtents: data left over when the extents are exhausted is
\* dropped without an error.
WriteExtentsTruncating(content, data, extents, block_size) ==
  LET r == WriteExtentsLoop(content, data, extents, 1, block_size, 0, <<>>)
  IN [r EXCEPT !.err = IF Len(r.io) = Len(extents) THEN NoError ELSE r.err]

WriteExtents(content, data, extents, block_size) ==
  WriteExtentsLoop(content, data, extents, 1, block_size, 0, <<>>)

-----------------------------------------------------------------------------
(* Operation types and the bzip2 codec *)

OpReplace == "REPLACE"
OpReplaceBz == "REPLACE_BZ"
OpMove == "MOVE"
OpBsdiff == "BSDIFF"

\* A stand-in for the bzip2 format: the header byte 66 ('B') followed by
\* <<count, byte>> runs.  Anything else is not a bzip2 stream.
RECURSIVE BzExpand(_, _)
BzExpand(data, i) ==
  IF i > Len(data) THEN <<>>
  ELSE Fill(data[i + 1], data[i]) \o BzExpand(data, i + 2)

BzValid(data) == Len(data) >= 1 /\ data[1] = 66 /\ Len(data) % 2 = 1

\* bz2.decompress
Bz2Decompress(data) ==
  IF BzValid(data) THEN [data |-> BzExpand(data, 2), err |-> NoError]
  ELSE [data |-> <<>>, err |-> "DecompressError"]

\* A bzip2 stream of a byte string (one run per byte).
RECURSIVE BzRuns(_, _)
BzRuns(data, i) ==
  IF i > Len(data) THEN <<>> ELSE <<1, data[i]>> \o BzRuns(data, i + 1)

Bz2Compress(data) == <<66>> \o BzRuns(data, 1)

-----------------------------------------------------------------------------
(* PayloadApplier._ApplyReplaceOperation *)

\* A write of the REPLACE loop, with the bytes it wrote.
WriteEvent(off, data) ==
  [kind |-> "write", off |-> off, len |-> Len(data), data |-> data]

\* Mutant of ExceedsPartition: only the start of the extent is compared.
ExceedsPartitionStartOnly(start_block, num_blocks, block_size, part_size) ==
  start_block * block_size > part_size

\* "Make sure we're not running past partition boundary."
ExceedsPartition(start_block, num_blocks, block_size, part_size) ==
  (start_block + num_blocks) * block_size > part_size

\* Mutant of MoreBlocksThanData: a whole block of padding is let through.
MoreBlocksThanDataStrict(data_end, data_length, block_size) ==
  data_end > data_length + block_size

\* "Make sure that we have enough data to write."
MoreBlocksThanData(data_end, data_length, block_size) ==
  data_end >= data_length + block_size

RECURSIVE ReplaceLoop(_, _, _, _, _, _, _, _, _)
ReplaceLoop(extents, i, out_data, data_length, data_start, content, part_size, block_size, io) ==
  IF i > Len(extents)
  THEN [content |-> content, io |-> io,
        err |-> IF data_start < data_length THEN "ShortWrite" ELSE NoError]
  ELSE LET start_block == extents[i].start_block
           num_blocks == extents[i].num_blocks
           count == num_blocks * block_size
           data_end == data_start + count
           padded == IF data_end > data_length
                     THEN out_data \o Fill(0, data_end - data_length)
                     ELSE out_data
           off == start_block * block_size
       IN IF start_block # PSEUDO_EXTENT_MARKER
          THEN IF ExceedsPartition(start_block, num_blocks, block_size, part_size)
               THEN [content |-> content, io |-> io, err |-> "ExtentOverrun"]
               ELSE IF MoreBlocksThanData(data_end, data_length, block_size)
               THEN [content |-> content, io |-> io, err |-> "InsufficientData"]
               ELSE ReplaceLoop(extents, i + 1, padded, data_length,
                                data_start + count,
                                WriteAt(content, off,
                                        Slice(padded, data_start, data_end)),
                                part_size, block_size,
                                io \o <<IoEvent("payload_seek", off, 0),
                                        WriteEvent(off, Slice(padded, data_start,
                                                              data_end))>>)
          ELSE ReplaceLoop(extents, i + 1, out_data, data_length,
                           data_start + count, content, part_size, block_size,
                           io)

\* Mutant of ApplyReplaceOperation: the data of a REPLACE_BZ is written as it
\* is in the payload.
ApplyReplaceOperationRaw(op, data, content, part_size, block_size) ==
  ReplaceLoop(op.dst_extents, 1, data, Len(data), 0, content, part_size,
              block_size, <<>>)

\* Mutant of ApplyReplaceOperation: the pseudo extents are dropped from the
\* list, so they consume no data.
ApplyReplaceOperationDroppingPseudo(op, data, content, part_size, block_size) ==
  LET dec == IF op.type = OpReplaceBz THEN Bz2Decompress(data)
             ELSE [data |-> data, err |-> NoError]
      Real(ex) == ex.start_block # PSEUDO_EXTENT_MARKER
  IN IF dec.err # NoError
     THEN [content |-> content, io |-> <<>>, err |-> dec.err]
     ELSE ReplaceLoop(SelectSeq(op.dst_extents, Real), 1, dec.data,
                      Len(dec.data), 0, content, part_size, block_size, <<>>)

\* Mutant of ApplyReplaceOperation: the extents are checked before any is
\* written, so a failing operation writes nothing.
ApplyReplaceOperationAllOrNothing(op, data, content, part_size, block_size) ==
  LET dec == IF op.type = OpReplaceBz THEN Bz2Decompress(data)
             ELSE [data |-> data, err |-> NoError]
      r == ReplaceLoop(op.dst_extents, 1, dec.data, Len(dec.data), 0, content,
                       part_size, block_size, <<>>)
  IN IF dec.err # NoError
     THEN [content |-> content, io |-> <<>>, err |-> dec.err]
     ELSE IF r.err # NoError
     THEN [content |-> content, io |-> <<>>, err |-> r.err]
     ELSE r

\* Mutant of ApplyReplaceOperation: the check that all data was written is
\* missing.
ApplyReplaceOperationNoShortWrite(op, data, content, part_size, block_size) ==
  LET dec == IF op.type = OpReplaceBz THEN Bz2Decompress(data)
             ELSE [data |-> data, err |-> NoError]
      r == ReplaceLoop(op.dst_extents, 1, dec.data, Len(dec.data), 0, content,
                       part_size, block_size, <<>>)
  IN IF dec.err # NoError
     THEN [content |-> content, io |-> <<>>, err |-> dec.err]
     ELSE [r EXCEPT !.err = IF @ = "ShortWrite" THEN NoError ELSE @]

ApplyReplaceOperation(op, data, content, part_size, block_size) ==
  LET dec == IF op.type = OpReplaceBz THEN Bz2Decompress(data)
             ELSE [data |-> data, err |-> NoError]
  IN IF dec.err # NoError
     THEN [content |-> content, io |-> <<>>, err |-> dec.err]
     ELSE ReplaceLoop(op.dst_extents, 1, dec.data, Len(dec.data), 0, content,
                      part_size, block_size, <<>>)

-----------------------------------------------------------------------------
(* PayloadApplier._ApplyMoveOperation *)

\* The file offsets of the bytes of a sequence of extents, in extent order.
RECURSIVE ExtentOffsets(_, _, _)
ExtentOffsets(extents, i, block_size) ==
  IF i > Len(extents) THEN <<>>
  ELSE [k \in 1..(extents[i].num_blocks * block_size) |->
          extents[i].start_block * block_size + k - 1]
       \o ExtentOffsets(extents, i + 1, block_size)

RECURSIVE MoveByteWise(_, _, _, _)
MoveByteWise(content, from, to, j) ==
  IF j > Len(from) \/ j > Len(to) THEN content
  ELSE LET written == WriteAt(content, to[j], <<content[from[j] + 1]>>)
       IN MoveByteWise(SubSeq(written, 1, Len(written)), from, to, j + 1)

\* Mutant of ApplyMoveOperation: the data is copied through as it is read,
\* not gathered first.
ApplyMoveOperationUnbuffered(op, content, block_size) ==
  LET in == ReadExtents(content, op.src_extents, block_size, -1) IN
  IF in.err # NoError
  THEN [content |-> content, io |-> in.io, err |-> in.err]
  ELSE LET out == WriteExtents(content, in.data, op.dst_extents, block_size)
       IN [content |-> MoveByteWise(content,
                                    ExtentOffsets(op.src_extents, 1, block_size),
                                    ExtentOffsets(op.dst_extents, 1, block_size), 1),
           io |-> in.io \o out.io, err |-> out.err]

ApplyMoveOperation(op, content, block_size) ==
  LET in == ReadExtents(content, op.src_extents, block_size, -1) IN
  IF in.err # NoError
  THEN [content |-> content, io |-> in.io, err |-> in.err]
  ELSE LET out == WriteExtents(content, in.data, op.dst_extents, block_size)
       IN [content |-> out.content, io |-> in.io \o out.io, err |-> out.err]

-----------------------------------------------------------------------------
(* PayloadApplier._ApplyBsdiffOperation *)

\* The three NamedTemporaryFile(delete=False) of one BSDIFF operation.
BsdiffTempFiles(op_name) ==
  {<<op_name, "in">>, <<op_name, "patch">>, <<op_name, "out">>}

\* Mutant of ApplyBsdiffOperation: the output is written as the tool left it,
\* without padding.
ApplyBsdiffOperationUnpadded(op, op_name, patch_data, content, block_size, tool) ==
  LET in == ReadExtents(content, op.src_extents, block_size, op.src_length)
      tmp == BsdiffTempFiles(op_name)
  IN IF in.err # NoError
     THEN [content |-> content, io |-> in.io, err |-> in.err, tmp |-> {}]
     ELSE IF tool.rc # 0
     THEN [content |-> content, io |-> in.io, err |-> "PatchToolFailed",
           tmp |-> tmp]
     ELSE IF Len(tool.out) # op.dst_length
     THEN [content |-> content, io |-> in.io, err |-> "PatchLengthMismatch",
           tmp |-> tmp]
     ELSE LET w == WriteExtents(content, tool.out, op.dst_extents, block_size)
          IN [content |-> w.content, io |-> in.io \o w.io, err |-> w.err,
              tmp |-> IF w.err # NoError THEN tmp ELSE {}]

\* Mutant of ApplyBsdiffOperation: the exit status of the tool is not looked
\* at (subprocess.call for subprocess.check_call).
ApplyBsdiffOperationIgnoringStatus(op, op_name, patch_data, content, block_size, tool) ==
  LET in == ReadExtents(content, op.src_extents, block_size, op.src_length)
      tmp == BsdiffTempFiles(op_name)
  IN IF in.err # NoError
     THEN [content |-> content, io |-> in.io, err |-> in.err, tmp |-> {}]
     ELSE IF Len(tool.out) # op.dst_length
     THEN [content |-> content, io |-> in.io, err |-> "PatchLengthMismatch",
           tmp |-> tmp]
     ELSE LET unaligned_out_len == Len(tool.out) % block_size
              out_data == IF unaligned_out_len # 0
                          THEN tool.out \o Fill(0, block_size - unaligned_out_len)
                          ELSE tool.out
              w == WriteExtents(content, out_data, op.dst_extents, block_size)
          IN [content |-> w.content, io |-> in.io \o w.io, err |-> w.err,
              tmp |-> IF w.err # NoError THEN tmp ELSE {}]

\* Mutant of ApplyBsdiffOperation: the output is written to the partition
\* before its length is compared with dst_length.
ApplyBsdiffOperationWriteFirst(op, op_name, patch_data, content, block_size, tool) ==
  LET in == ReadExtents(content, op.src_extents, block_size, op.src_length)
      tmp == BsdiffTempFiles(op_name)
      unaligned_out_len == Len(tool.out) % block_size
      out_data == IF unaligned_out_len # 0
                  THEN tool.out \o Fill(0, block_size - unaligned_out_len)
                  ELSE tool.out
      w == WriteExtents(content, out_data, op.dst_extents, block_size)
  IN IF in.err # NoError
     THEN [content |-> content, io |-> in.io, err |-> in.err, tmp |-> {}]
     ELSE IF tool.rc # 0
     THEN [content |-> content, io |-> in.io, err |-> "PatchToolFailed",
           tmp |-> tmp]
     ELSE IF Len(tool.out) # op.dst_length
     THEN [content |-> w.content, io |-> in.io \o w.io,
           err |-> "PatchLengthMismatch", tmp |-> tmp]
     ELSE [content |-> w.content, io |-> in.io \o w.io, err |-> w.err,
           tmp |-> IF w.err # NoError THEN tmp ELSE {}]

\* tool: what the external bspatch did, [rc, out]: its exit status and the
\* content it left in the output file.
ApplyBsdiffOperation(op, op_name, patch_data, content, block_size, tool) ==
  LET in == ReadExtents(content, op.src_extents, block_size, op.src_length)
      tmp == BsdiffTempFiles(op_name)
  IN IF in.err # NoError
     THEN [content |-> content, io |-> in.io, err |-> in.err, tmp |-> {}]
     ELSE IF tool.rc # 0
     THEN [content |-> content, io |-> in.io, err |-> "PatchToolFailed",
           tmp |-> tmp]
     ELSE IF Len(tool.out) # op.dst_length
     THEN [content |-> content, io |-> in.io, err |-> "PatchLengthMismatch",
           tmp |-> tmp]
     ELSE LET unaligned_out_len == Len(tool.out) % block_size
              out_data == IF unaligned_out_len # 0
                          THEN tool.out \o Fill(0, block_size - unaligned_out_len)
                          ELSE tool.out
              w == WriteExtents(content, out_data, op.dst_extents, block_size)
          IN [content |-> w.content, io |-> in.io \o w.io, err |-> w.err,
              tmp |-> IF w.err # NoError THEN tmp ELSE {}]

-----------------------------------------------------------------------------
(* The payload object (payload.py, outside this source tree) *)

\* Payload.IsFull / Payload.IsDelta: a payload is one or the other.
IsFull(p) == p.kind = "full"
IsDelta(p) == p.kind = "delta"

\* common.Read: seek to offset, read length bytes; a short read is an error.
Read(content, length, offset) ==
  LET data == ReadAt(content, offset, length) IN
  IF Len(data) # length THEN [data |-> data, err |-> "ReadError"]
  ELSE [data |-> data, err |-> NoError]

\* Payload.ReadDataBlob: common.Read on the payload file at the data section.
ReadDataBlob(p, offset, length) == Read(p.blob, length, offset)

-----------------------------------------------------------------------------
(* common.OperationIter and PayloadApplier._ApplyOperations *)

\* Mutant of NextItem: every other item is skipped.
NextItemSkipping(idx) == idx + 2

\* _ObjNameIter: the index of the item yielded after the idx-th.
NextItem(idx) == idx + 1

\* _ObjNameIter: whether an item is left to yield.
HasItem(items, idx) == idx <= Len(items)

\* Mutant of ApplyOperation: a MOVE reads the partition as it was when the
\* file was opened, not as the earlier operations left it.
ApplyOperationStaleRead(op, op_name, content, part_size, p, tool) ==
  LET blob == ReadDataBlob(p, op.data_offset, op.data_length)
      bio == <<IoEvent("blob_read", op.data_offset, op.data_length)>>
      bs == p.manifest.block_size
  IN IF blob.err # NoError
     THEN [content |-> content, io |-> bio, err |-> blob.err, tmp |-> {}]
     ELSE IF op.type \in {OpReplace, OpReplaceBz}
     THEN LET r == ApplyReplaceOperation(op, blob.data, content, part_size, bs)
          IN [content |-> r.content, io |-> bio \o r.io, err |-> r.err, tmp |-> {}]
     ELSE IF op.type = OpMove
     THEN LET in == ReadExtents(snap.prepared, op.src_extents, bs, -1)
              w == WriteExtents(content, in.data, op.dst_extents, bs)
          IN [content |-> w.content, io |-> bio \o in.io \o w.io,
              err |-> IF in.err # NoError THEN in.err ELSE w.err, tmp |-> {}]
     ELSE IF op.type = OpBsdiff
     THEN LET r == ApplyBsdiffOperation(op, op_name, blob.data, content, bs, tool)
          IN [content |-> r.content, io |-> bio \o r.io, err |-> r.err,
              tmp |-> r.tmp]
     ELSE [content |-> content, io |-> bio, err |-> "UnknownOperation", tmp |-> {}]

\* Mutant of ApplyOperation: an operation of an unknown type is passed over.
ApplyOperationSkippingUnknown(op, op_name, content, part_size, p, tool) ==
  LET blob == ReadDataBlob(p, op.data_offset, op.data_length)
      bio == <<IoEvent("blob_read", op.data_offset, op.data_length)>>
      bs == p.manifest.block_size
  IN IF blob.err # NoError
     THEN [content |-> content, io |-> bio, err |-> blob.err, tmp |-> {}]
     ELSE IF op.type \in {OpReplace, OpReplaceBz}
     THEN LET r == ApplyReplaceOperation(op, blob.data, content, part_size, bs)
          IN [content |-> r.content, io |-> bio \o r.io, err |-> r.err, tmp |-> {}]
     ELSE IF op.type = OpMove
     THEN LET r == ApplyMoveOperation(op, content, bs)
          IN [content |-> r.content, io |-> bio \o r.io, err |-> r.err, tmp |-> {}]
     ELSE IF op.type = OpBsdiff
     THEN LET r == ApplyBsdiffOperation(op, op_name, blob.data, content, bs, tool)
          IN [content |-> r.content, io |-> bio \o r.io, err |-> r.err,
              tmp |-> r.tmp]
     ELSE [content |-> content, io |-> bio, err |-> NoError, tmp |-> {}]

\* The body of the loop of _ApplyOperations for one operation.
ApplyOperation(op, op_name, content, part_size, p, tool) ==
  LET blob == ReadDataBlob(p, op.data_offset, op.data_length)
      bio == <<IoEvent("blob_read", op.data_offset, op.data_length)>>
      bs == p.manifest.block_size
  IN IF blob.err # NoError
     THEN [content |-> content, io |-> bio, err |-> blob.err, tmp |-> {}]
     ELSE IF op.type \in {OpReplace, OpReplaceBz}
     THEN LET r == ApplyReplaceOperation(op, blob.data, content, part_size, bs)
          IN [content |-> r.content, io |-> bio \o r.io, err |-> r.err, tmp |-> {}]
     ELSE IF op.type = OpMove
     THEN LET r == ApplyMoveOperation(op, content, bs)
          IN [content |-> r.content, io |-> bio \o r.io, err |-> r.err, tmp |-> {}]
     ELSE IF op.type = OpBsdiff
     THEN LET r == ApplyBsdiffOperation(op, op_name, blob.data, content, bs, tool)
          IN [content |-> r.content, io |-> bio \o r.io, err |-> r.err,
              tmp |-> r.tmp]
     ELSE [content |-> content, io |-> bio, err |-> "UnknownOperation", tmp |-> {}]

-----------------------------------------------------------------------------
(* PayloadApplier.Run: argument checks *)

\* Python truthiness of a path argument.
Given(path) == path # None /\ path # ""

\* Mutant of ValidateArgs: the sources are checked before the destinations.
ValidateArgsSourcesFirst(a, p) ==
  IF ~(Given(a.src_kernel_part) \/ Given(a.src_rootfs_part))
  THEN IF ~IsFull(p) THEN "SourceRequired"
       ELSE IF ~(Given(a.dst_kernel_part) /\ Given(a.dst_rootfs_part))
       THEN "MissingDestination" ELSE NoError
  ELSE IF Given(a.src_kernel_part) /\ Given(a.src_rootfs_part)
  THEN IF ~IsDelta(p) THEN "UnexpectedSource"
       ELSE IF ~(Given(a.dst_kernel_part) /\ Given(a.dst_rootfs_part))
       THEN "MissingDestination" ELSE NoError
  ELSE "PartialSource"

\* Mutant of ValidateArgs: a call without sources is accepted for any payload.
ValidateArgsNoFullCheck(a, p) ==
  IF ~(Given(a.dst_kernel_part) /\ Given(a.dst_rootfs_part))
  THEN "MissingDestination"
  ELSE IF ~(Given(a.src_kernel_part) \/ Given(a.src_rootfs_part))
  THEN NoError
  ELSE IF Given(a.src_kernel_part) /\ Given(a.src_rootfs_part)
  THEN IF ~IsDelta(p) THEN "UnexpectedSource" ELSE NoError
  ELSE "PartialSource"

\* Mutant of ValidateArgs: a call with both sources is accepted for any payload.
ValidateArgsNoDeltaCheck(a, p) ==
  IF ~(Given(a.dst_kernel_part) /\ Given(a.dst_rootfs_part))
  THEN "MissingDestination"
  ELSE IF ~(Given(a.src_kernel_part) \/ Given(a.src_rootfs_part))
  THEN IF ~IsFull(p) THEN "SourceRequired" ELSE NoError
  ELSE IF Given(a.src_kernel_part) /\ Given(a.src_rootfs_part)
  THEN NoError
  ELSE "PartialSource"

\* Mutant of ValidateArgs: a single source is treated like both sources.
ValidateArgsAnySource(a, p) ==
  IF ~(Given(a.dst_kernel_part) /\ Given(a.dst_rootfs_part))
  THEN "MissingDestination"
  ELSE IF ~(Given(a.src_kernel_part) \/ Given(a.src_rootfs_part))
  THEN IF ~IsFull(p) THEN "SourceRequired" ELSE NoError
  ELSE IF ~IsDelta(p) THEN "UnexpectedSource" ELSE NoError

ValidateArgs(a, p) ==
  IF ~(Given(a.dst_kernel_part) /\ Given(a.dst_rootfs_part))
  THEN "MissingDestination"
  ELSE IF ~(Given(a.src_kernel_part) \/ Given(a.src_rootfs_part))
  THEN IF ~IsFull(p) THEN "SourceRequired" ELSE NoError
  ELSE IF Given(a.src_kernel_part) /\ Given(a.src_rootfs_part)
  THEN IF ~IsDelta(p) THEN "UnexpectedSource" ELSE NoError
  ELSE "PartialSource"

-----------------------------------------------------------------------------
(* PayloadApplier._ApplyToPartition: the arguments Run passes for a partition *)

CurPart == IF pc = "ApplyingRoot" THEN "rootfs" ELSE "kernel"

PartOps(part) ==
  IF part = "rootfs" THEN payload.manifest.install_operations
  ELSE payload.manifest.kernel_install_operations

BaseName(part) ==
  IF part = "rootfs" THEN "install_operations" ELSE "kernel_install_operations"

DstInfo(part) ==
  IF part = "rootfs" THEN payload.manifest.new_rootfs_info
  ELSE payload.manifest.new_kernel_info

SrcInfo(part) ==
  IF part = "rootfs" THEN payload.manifest.old_rootfs_info
  ELSE payload.manifest.old_kernel_info

DstPath(part) ==
  IF part = "rootfs" THEN args.dst_rootfs_part ELSE args.dst_kernel_part

SrcPath(part) ==
  IF part = "rootfs" THEN args.src_rootfs_part ELSE args.src_kernel_part

\* fallocate -l size path: creates the file, or extends it; never shrinks it
\* and never clears what it holds.
Fallocate(file, size) ==
  IF ~file.exists THEN File(Fill(0, size))
  ELSE IF Len(file.data) >= size THEN file
  ELSE File(file.data \o Fill(0, size - Len(file.data)))

\* shutil.copyfile(src, dst)
CopyFile(fs, src, dst) == [fs EXCEPT ![dst] = fs[src]]

\* Mutant of Unwind: the destination is put back as it was prepared.
UnwindRollback(content, prepared) == prepared

\* What an exception leaving the "with open(dst, 'r+b')" block leaves in the
\* file: the content as written so far (prepared: the content when the block
\* was entered).
Unwind(content, prepared) == content

Handle(path, mode) == [path |-> path, mode |-> mode]

\* Mutant of WithExit: the file is closed when the block ends normally only.
WithExitOnReturnOnly(hs, h, err) == IF err # NoError THEN hs ELSE hs \ {h}

\* The end of a "with open(...) as f" block: f is closed, whether the block
\* ends normally or by the exception err.
WithExit(hs, h, err) == hs \ {h}

-----------------------------------------------------------------------------
(* Bounds and inputs of the Run specification *)

\* Longest operation list of a partition.
MaxOps == 2

\* Blocks of a partition, as declared by new_*_info.size.
PartBlocks == 2

BlockSizes == {2}

Paths == {"src_rootfs", "src_kernel", "dst_rootfs", "dst_kernel"}

Op(type, src, dst, off, len, src_length, dst_length) ==
  [type |-> type, src_extents |-> src, dst_extents |-> dst,
   data_offset |-> off, data_length |-> len,
   src_length |-> src_length, dst_length |-> dst_length]

\* The data section of the payloads of the Run specification.
RunBlob(b) == Fill(1, b)

\* The operations the lists of the Run specification are made of: a REPLACE
\* of block 0 (succeeds), and a MOVE of blocks 0-1 to block 1 alone, which
\* writes block 1 and then fails with more data than write extents.
RunOps(b) ==
  { Op(OpReplace, <<>>, <<Extent(0, 1)>>, 0, b, 0, 0),
    Op(OpMove, <<Extent(0, 2)>>, <<Extent(1, 1)>>, 0, 0, 0, 0) }

SeqsUpTo(S, n) == UNION {[1..k -> S] : k \in 0..n}

PartBytes(b) == PartBlocks * b

SrcImage(b) == Fill(3, PartBytes(b))

\* The images a payload may declare as the new partition: block 0 replaced
\* in a preallocated file, and in a copy of the source.
NewImages(b) ==
  { Fill(1, b) \o Fill(0, PartBytes(b) - b),
    Fill(1, b) \o Fill(3, PartBytes(b) - b) }

\* The images a delta payload may declare as the old partition.
OldImages(b) == {SrcImage(b), Fill(0, PartBytes(b))}

Info(size, image) == [size |-> size, hash |-> Sha256(image)]

\* An unset PartitionInfo field of the manifest.
UnsetInfo == [size |-> 0, hash |-> [sha256 |-> <<>>]]

OldInfos(kind, b) ==
  IF kind = "full" THEN {UnsetInfo}
  ELSE {Info(PartBytes(b), img) : img \in OldImages(b)}

NewInfos(b) == {Info(PartBytes(b), img) : img \in NewImages(b)}

PayloadsOf(k, b) ==
  { [kind |-> k, blob |-> RunBlob(b),
     manifest |-> [block_size |-> b,
                   install_operations |-> rops,
                   kernel_install_operations |-> kops,
                   old_rootfs_info |-> ori, old_kernel_info |-> oki,
                   new_rootfs_info |-> nri, new_kernel_info |-> nki]] :
      rops \in SeqsUpTo(RunOps(b), MaxOps), kops \in SeqsUpTo(RunOps(b), MaxOps),
      ori \in OldInfos(k, b), oki \in OldInfos(k, b),
      nri \in NewInfos(b), nki \in NewInfos(b) }

Payloads == UNION {PayloadsOf(k, b) : k \in {"full", "delta"}, b \in BlockSizes}

RunArgs ==
  [dst_kernel_part : {None, "dst_kernel"}, dst_rootfs_part : {None, "dst_rootfs"},
   src_kernel_part : {None, "src_kernel"}, src_rootfs_part : {None, "src_rootfs"}]

\* What the external bspatch may do: fail, or leave one of these outputs.
ToolOutcomes(b) ==
  {[rc |-> 1, out |-> <<>>]} \cup
  {[rc |-> 0, out |-> o] : o \in {Fill(4, b), Fill(4, b + 1)}}

NoTool == [rc |-> 0, out |-> <<>>]

-----------------------------------------------------------------------------
(* PayloadApplier.Run as a state machine *)

\* Mutant of AfterPartition: Run returns after the rootfs.
AfterPartitionKernelSkipped(part) == "Done"

\* Run: the rootfs is applied, then the kernel, then Run returns.
AfterPartition(part) == IF part = "rootfs" THEN "ApplyingKernel" ELSE "Done"

\* The file system before Run is called: the source partitions exist, the
\* destinations do not.
InitialFiles(b) ==
  [p \in Paths |->
     IF p \in {"src_rootfs", "src_kernel"} THEN File(SrcImage(b)) ELSE NoFile]

Init ==
  /\ pc = "Idle"
  /\ args \in RunArgs
  /\ payload \in Payloads
  /\ files = InitialFiles(payload.manifest.block_size)
  /\ step = "none"
  /\ op_idx = 0
  /\ handles = {}
  /\ error = NoError
  /\ executed = <<>>
  /\ io_log = <<>>
  /\ tmp_files = {}
  /\ snap = [prepared |-> <<>>]
  /\ failed_at = <<>>
  /\ unit = "none"

\* An exception propagating out of Run.
Raise(err) ==
  /\ pc' = "Failed"
  /\ error' = err
  /\ step' = "none"
  /\ failed_at' = <<pc, step, op_idx>>

\* Run is entered: self.payload.ResetFile()
Run ==
  /\ pc = "Idle"
  /\ pc' = "Validating"
  /\ io_log' = Append(io_log, IoEvent("payload_reset", 0, 0))
  /\ UNCHANGED <<args, payload, files, step, op_idx, handles, error, executed,
                 tmp_files, snap, failed_at, unit>>

\* Run: "Make sure the arguments are sane and match the payload."
Validate ==
  /\ pc = "Validating"
  /\ LET err == ValidateArgs(args, payload) IN
       IF err # NoError THEN Raise(err)
       ELSE /\ pc' = "ApplyingRoot"
            /\ step' = "source"
            /\ UNCHANGED <<error, failed_at>>
  /\ UNCHANGED <<args, payload, files, op_idx, handles, executed, io_log,
                 tmp_files, snap, unit>>

Applying == pc \in {"ApplyingRoot", "ApplyingKernel"}

\* Mutant of VerifySource: the source is copied before it is verified.
VerifySourceAfterCopy ==
  /\ pc \in {"ApplyingRoot", "ApplyingKernel"}
  /\ step = "source" /\ Given(SrcPath(CurPart))
  /\ files' = CopyFile(files, SrcPath(CurPart), DstPath(CurPart))
  /\ LET src == files[SrcPath(CurPart)]
         err == IF ~src.exists THEN "IOError"
                ELSE VerifySha256(src.data, SrcInfo(CurPart).hash, -1)
     IN IF err # NoError THEN Raise(err)
        ELSE /\ step' = "copy"
             /\ UNCHANGED <<pc, error, failed_at>>
  /\ UNCHANGED <<args, payload, op_idx, handles, executed, io_log,
                 tmp_files, snap, unit>>

\* _ApplyToPartition: "Verify the source partition."
VerifySource ==
  /\ Applying /\ step = "source" /\ Given(SrcPath(CurPart))
  /\ LET src == files[SrcPath(CurPart)]
         err == IF ~src.exists THEN "IOError"
                ELSE VerifySha256(src.data, SrcInfo(CurPart).hash, -1)
         h == Handle(SrcPath(CurPart), "rb")
     IN /\ handles' = IF ~src.exists THEN handles
                       ELSE WithExit(handles \cup {h}, h, err)
        /\ IF err # NoError THEN Raise(err)
           ELSE /\ step' = "copy"
                /\ UNCHANGED <<pc, error, failed_at>>
  /\ UNCHANGED <<args, payload, files, op_idx, executed, io_log,
                 tmp_files, snap, unit>>

\* _ApplyToPartition: "Copy the src partition to the dst one."
CopySource ==
  /\ Applying /\ step = "copy"
  /\ files' = CopyFile(files, SrcPath(CurPart), DstPath(CurPart))
  /\ step' = "open"
  /\ UNCHANGED <<pc, args, payload, op_idx, handles, error, executed, io_log,
                 tmp_files, snap, failed_at, unit>>

\* _ApplyToPartition: "Preallocate the dst partition file."
Preallocate ==
  /\ Applying /\ step = "source" /\ ~Given(SrcPath(CurPart))
  /\ files' = [files EXCEPT ![DstPath(CurPart)] =
                 Fallocate(@, DstInfo(CurPart).size)]
  /\ step' = "open"
  /\ UNCHANGED <<pc, args, payload, op_idx, handles, error, executed, io_log,
                 tmp_files, snap, failed_at, unit>>

\* _ApplyToPartition: with open(dst_part_file_name, 'r+b') as dst_part_file
OpenDestination ==
  /\ Applying /\ step = "open"
  /\ handles' = handles \cup {Handle(DstPath(CurPart), "r+b")}
  /\ op_idx' = 1
  /\ step' = "ops"
  /\ snap' = [snap EXCEPT !.prepared = files[DstPath(CurPart)].data]
  /\ UNCHANGED <<pc, args, payload, files, error, executed, io_log, tmp_files,
                 failed_at, unit>>

\* _ApplyOperations: one turn of the loop; an error leaves the with block,
\* which closes the file, and Run.
ApplyNextOperation ==
  /\ Applying /\ step = "ops" /\ HasItem(PartOps(CurPart), op_idx)
  /\ LET op == PartOps(CurPart)[op_idx]
         dst == DstPath(CurPart)
     IN \E tool \in IF op.type = OpBsdiff
                    THEN ToolOutcomes(payload.manifest.block_size) ELSE {NoTool} :
          LET r == ApplyOperation(op, <<CurPart, op_idx>>, files[dst].data,
                                  DstInfo(CurPart).size, payload, tool)
          IN /\ executed' = Append(executed, <<CurPart, op_idx>>)
             /\ io_log' = io_log \o r.io
             /\ tmp_files' = tmp_files \cup r.tmp
             /\ IF r.err # NoError
                THEN /\ Raise(r.err)
                     /\ files' = [files EXCEPT ![dst] =
                                    File(Unwind(r.content, snap.prepared))]
                     /\ handles' = WithExit(handles, Handle(dst, "r+b"), r.err)
                     /\ op_idx' = op_idx
                ELSE /\ files' = [files EXCEPT ![dst] = File(r.content)]
                     /\ op_idx' = NextItem(op_idx)
                     /\ UNCHANGED <<pc, error, step, handles, failed_at>>
             /\ unit' = IF op.type = OpBsdiff THEN [tool |-> tool] ELSE unit
  /\ UNCHANGED <<args, payload, snap>>

\* _ApplyOperations returns: the with block closes the destination.
CloseDestination ==
  /\ Applying /\ step = "ops" /\ ~HasItem(PartOps(CurPart), op_idx)
  /\ handles' = WithExit(handles, Handle(DstPath(CurPart), "r+b"), NoError)
  /\ step' = "verify"
  /\ UNCHANGED <<pc, args, payload, files, op_idx, error, executed, io_log,
                 tmp_files, snap, failed_at, unit>>

\* _ApplyToPartition: "Verify the resulting partition."; Run goes on to the
\* kernel, or returns.
VerifyDestination ==
  /\ Applying /\ step = "verify"
  /\ LET err == VerifySha256(files[DstPath(CurPart)].data,
                              DstInfo(CurPart).hash, -1)
         h == Handle(DstPath(CurPart), "rb")
     IN /\ handles' = WithExit(handles \cup {h}, h, err)
        /\ IF err # NoError THEN Raise(err)
           ELSE /\ pc' = AfterPartition(CurPart)
                /\ step' = IF AfterPartition(CurPart) = "Done" THEN "none" ELSE "source"
                /\ UNCHANGED <<error, failed_at>>
  /\ UNCHANGED <<args, payload, files, op_idx, executed, io_log,
                 tmp_files, snap, unit>>

Next ==
  \/ Run
  \/ Validate
  \/ VerifySource
  \/ CopySource
  \/ Preallocate
  \/ OpenDestination
  \/ ApplyNextOperation
  \/ CloseDestination
  \/ VerifyDestination

Spec == Init /\ [][Next]_vars

-----------------------------------------------------------------------------
(* Properties of Run *)

Parts == {"rootfs", "kernel"}

PartOf(pcv) == IF pcv = "ApplyingRoot" THEN "rootfs" ELSE "kernel"

DstGiven == Given(args.dst_kernel_part) /\ Given(args.dst_rootfs_part)
NoSrcGiven == ~Given(args.src_kernel_part) /\ ~Given(args.src_rootfs_part)
BothSrcGiven == Given(args.src_kernel_part) /\ Given(args.src_rootfs_part)
OneSrcGiven == ~NoSrcGiven /\ ~BothSrcGiven

\* The arguments Run accepts for the payload.
ArgsValid ==
  /\ DstGiven
  /\ \/ NoSrcGiven /\ payload.kind = "full"
     \/ BothSrcGiven /\ payload.kind = "delta"

\* The destination of a partition exists and its digest is the manifest's.
DigestMatches(part) ==
  /\ Given(DstPath(part))
  /\ files[DstPath(part)].exists
  /\ Sha256(files[DstPath(part)].data) = DstInfo(part).hash

FailedIn(stp) == pc = "Failed" /\ failed_at # <<>> /\ failed_at[2] = stp

\* No partition file was created, written or opened, and no operation ran.
Untouched ==
  /\ files = InitialFiles(payload.manifest.block_size)
  /\ handles = {}
  /\ executed = <<>>
  /\ \A i \in 1..Len(io_log) : io_log[i].kind = "payload_reset"

ExecutedOf(part) ==
  LET OfPart(e) == e[1] = part IN SelectSeq(executed, OfPart)

\* The operations of a partition's list have all been applied.
OpsCompleted(part) ==
  \/ Applying /\ CurPart = part /\ step = "verify"
  \/ FailedIn("verify") /\ PartOf(failed_at[1]) = part
  \/ part = "rootfs" /\ (pc \in {"ApplyingKernel", "Done"}
                         \/ (pc = "Failed" /\ failed_at[1] = "ApplyingKernel"))
  \/ part = "kernel" /\ pc = "Done"

\* C1: Run returns only if the digest of each destination, taken after that
\* partition's operations were applied, equals the manifest's new_*_info.hash;
\* a destination whose digest differs makes Run fail with HashMismatch even
\* though every operation succeeded.
C1_DestinationHashVerified ==
  /\ pc = "Done" => DigestMatches("rootfs") /\ DigestMatches("kernel")
  /\ pc = "ApplyingKernel" => DigestMatches("rootfs")
  /\ FailedIn("verify") =>
       /\ error = "HashMismatch"
       /\ ~DigestMatches(PartOf(failed_at[1]))
       /\ Len(ExecutedOf(PartOf(failed_at[1]))) = Len(PartOps(PartOf(failed_at[1])))

\* C1 witness: the kernel's operations all succeeded, its digest differs, and
\* Run failed with HashMismatch.
C1_Witness ==
  /\ FailedIn("verify") /\ failed_at[1] = "ApplyingKernel"
  /\ error = "HashMismatch"
  /\ Len(ExecutedOf("kernel")) >= 1
  /\ files[args.dst_kernel_part].data # Fill(0, DstInfo("kernel").size)

\* C2: Run goes Idle, Validating, ApplyingRoot, ApplyingKernel, Done in that
\* order; a failure leads to Failed, after which (as after Done) no step is
\* taken; a partition file is created, written or opened only once validation
\* has passed; the kernel's apply starts only when the rootfs' apply has
\* finished with a matching digest.
C2_RunStateMachine ==
  [][ /\ pc \notin {"Done", "Failed"}
      /\ <<pc, pc'>> \in
           { <<"Idle", "Validating">>,
             <<"Validating", "ApplyingRoot">>, <<"Validating", "Failed">>,
             <<"ApplyingRoot", "ApplyingRoot">>, <<"ApplyingRoot", "ApplyingKernel">>,
             <<"ApplyingRoot", "Failed">>,
             <<"ApplyingKernel", "ApplyingKernel">>, <<"ApplyingKernel", "Done">>,
             <<"ApplyingKernel", "Failed">> }
      /\ (error' # NoError) <=> (pc' = "Failed")
      /\ (files' # files \/ handles' # handles \/ executed' # executed)
           => ArgsValid /\ Applying
      /\ (pc' \in {"ApplyingRoot", "ApplyingKernel"}) => ArgsValid
      /\ (pc = "ApplyingRoot" /\ pc' = "ApplyingKernel")
           => /\ step = "verify" /\ step' = "source"
              /\ DigestMatches("rootfs")
              /\ Len(ExecutedOf("rootfs")) = Len(PartOps("rootfs"))
      /\ (pc = "ApplyingKernel" /\ pc' = "Done") => step = "verify"
    ]_vars

\* C2 witness: a Run that applied operations to both partitions and returned.
C2_Witness ==
  /\ pc = "Done"
  /\ Len(ExecutedOf("rootfs")) >= 1
  /\ Len(ExecutedOf("kernel")) >= 1

\* C3: the operations of a partition's list are executed in list order, each
\* at most once, and all of them when the list completes; the operation that
\* fails is the last one executed.
C3_OperationsInListOrder ==
  \A part \in Parts :
    LET n == Len(ExecutedOf(part)) IN
    /\ \A i \in 1..n : ExecutedOf(part)[i] = <<part, i>>
    /\ n <= Len(PartOps(part))
    /\ OpsCompleted(part) => n = Len(PartOps(part))
    /\ (Applying /\ CurPart = part /\ step = "ops") => n = op_idx - 1
    /\ (FailedIn("ops") /\ PartOf(failed_at[1]) = part) => n = failed_at[3]
    /\ (pc = "Failed" /\ failed_at[1] = "ApplyingRoot" /\ part = "kernel") => n = 0

\* C3 witness: an operation failed with operations left in its list; they
\* were not executed.
C3_Witness ==
  /\ FailedIn("ops")
  /\ failed_at[3] < Len(PartOps(PartOf(failed_at[1])))
  /\ Len(ExecutedOf(PartOf(failed_at[1]))) = failed_at[3]

\* C4: a missing destination kernel or rootfs path makes Run fail with
\* MissingDestination, whatever the sources and the payload type are, and no
\* partition file is touched.
C4_MissingDestination ==
  (pc \notin {"Idle", "Validating"} /\ ~DstGiven) =>
    /\ pc = "Failed" /\ error = "MissingDestination"
    /\ failed_at[1] = "Validating"
    /\ Untouched

\* C4 witness: a destination is missing and only one source is given; Run
\* failed with MissingDestination.
C4_Witness ==
  /\ pc = "Failed" /\ error = "MissingDestination"
  /\ ~Given(args.dst_rootfs_part) /\ Given(args.dst_kernel_part)
  /\ OneSrcGiven
  /\ Untouched

\* Validation let the call through.
PassedValidation ==
  /\ pc \notin {"Idle", "Validating"}
  /\ ~(pc = "Failed" /\ failed_at[1] = "Validating")

FailedValidation(err) ==
  /\ pc = "Failed" /\ failed_at[1] = "Validating"
  /\ error = err
  /\ Untouched

\* C5: with both destinations and no source given, Run passes validation if
\* and only if the payload is a full update; for any other payload it fails
\* with SourceRequired and no partition file is touched.
C5_NoSourceNeedsFull ==
  (pc \notin {"Idle", "Validating"} /\ DstGiven /\ NoSrcGiven) =>
    /\ PassedValidation <=> payload.kind = "full"
    /\ payload.kind # "full" => FailedValidation("SourceRequired")

\* C5 witness: a delta payload applied without sources failed with
\* SourceRequired.
C5_Witness ==
  /\ DstGiven /\ NoSrcGiven /\ payload.kind = "delta"
  /\ FailedValidation("SourceRequired")

\* C6 as stated: whenever a source partition is supplied to a full-update
\* payload, Run fails with UnexpectedSource.
C6_Original ==
  (pc \notin {"Idle", "Validating"} /\ ~NoSrcGiven /\ payload.kind = "full") =>
    pc = "Failed" /\ error = "UnexpectedSource"

\* C6: with both destinations given, supplying both source partitions to a
\* full-update payload makes Run fail with UnexpectedSource and touch no
\* file; whenever a source path is given, Run passes validation only if the
\* payload is a delta update.
C6_SourceNeedsDelta ==
  /\ (pc \notin {"Idle", "Validating"} /\ DstGiven /\ BothSrcGiven) =>
       /\ PassedValidation <=> payload.kind = "delta"
       /\ payload.kind # "delta" => FailedValidation("UnexpectedSource")
  /\ (~NoSrcGiven /\ PassedValidation) => payload.kind = "delta"

\* C6 witness: a full payload applied with both sources and both destinations
\* failed with UnexpectedSource.
C6_Witness ==
  /\ DstGiven /\ BothSrcGiven /\ payload.kind = "full"
  /\ FailedValidation("UnexpectedSource")

\* C7 as stated: whenever exactly one source path is given, Run fails with
\* PartialSource and no partition file is touched.
C7_Original ==
  (pc \notin {"Idle", "Validating"} /\ OneSrcGiven) =>
    FailedValidation("PartialSource")

\* C7: with both destinations given, exactly one source path makes Run fail
\* with PartialSource whatever the payload type is, and no partition file is
\* touched.
C7_PartialSource ==
  (pc \notin {"Idle", "Validating"} /\ DstGiven /\ OneSrcGiven) =>
    FailedValidation("PartialSource")

\* C7 witness: a full payload with only the rootfs source given failed with
\* PartialSource.
C7_Witness ==
  /\ DstGiven /\ Given(args.src_rootfs_part) /\ ~Given(args.src_kernel_part)
  /\ payload.kind = "full"
  /\ FailedValidation("PartialSource")

\* The apply of a partition has gone past the check of its source.
PastSourceCheck(part) ==
  \/ Applying /\ CurPart = part /\ step # "source"
  \/ pc = "Failed" /\ PartOf(failed_at[1]) = part
       /\ failed_at[1] # "Validating" /\ failed_at[2] # "source"
  \/ part = "rootfs" /\ (pc \in {"ApplyingKernel", "Done"}
                         \/ (pc = "Failed" /\ failed_at[1] = "ApplyingKernel"))
  \/ part = "kernel" /\ pc = "Done"

SourceDigestMatches(part) ==
  /\ files[SrcPath(part)].exists
  /\ Sha256(files[SrcPath(part)].data) = SrcInfo(part).hash

\* C8: a partition's destination is created (copied) only after its source's
\* digest was found equal to src_info.hash; a source whose digest differs
\* makes the apply fail with HashMismatch, with the destination neither
\* created nor modified and none of the partition's operations executed.
C8_SourceVerifiedBeforeCopy ==
  \A part \in Parts :
    (PassedValidation /\ Given(SrcPath(part))) =>
      /\ PastSourceCheck(part) => SourceDigestMatches(part)
      /\ files[DstPath(part)] # InitialFiles(payload.manifest.block_size)[DstPath(part)]
           => SourceDigestMatches(part)
      /\ (FailedIn("source") /\ PartOf(failed_at[1]) = part) =>
           /\ error = "HashMismatch"
           /\ ~SourceDigestMatches(part)
           /\ ~files[DstPath(part)].exists
           /\ ExecutedOf(part) = <<>>
           /\ handles = {}

\* C8 witness: the rootfs source did not match; Run failed with HashMismatch
\* and there is no rootfs destination.
C8_Witness ==
  /\ FailedIn("source") /\ failed_at[1] = "ApplyingRoot"
  /\ error = "HashMismatch"
  /\ ~files[args.dst_rootfs_part].exists

InExtents(offset, extents, block_size) ==
  \E i \in 1..Len(extents) :
    /\ offset >= extents[i].start_block * block_size
    /\ offset < (extents[i].start_block + extents[i].num_blocks) * block_size

\* The bytes of new that differ from old (or are new) lie in the extents.
ChangedOnlyIn(old, new, extents, block_size) ==
  /\ Len(new) >= Len(old)
  /\ \A i \in 1..Len(new) :
       (i > Len(old) \/ new[i] # old[i]) => InExtents(i - 1, extents, block_size)

\* C9: the step on which Run fails changes no file, except for the writes the
\* failing operation itself made to its destination extents before it
\* failed: what the earlier operations wrote stays; and no step of the
\* kernel's apply changes the rootfs destination.
C9_NoRollback ==
  [][ /\ (pc # "Failed" /\ pc' = "Failed") =>
           \A p \in Paths :
             files'[p] # files[p] =>
               /\ step = "ops" /\ p = DstPath(CurPart)
               /\ files'[p].exists
               /\ ChangedOnlyIn(files[p].data, files'[p].data,
                                PartOps(CurPart)[op_idx].dst_extents,
                                payload.manifest.block_size)
      /\ pc = "ApplyingKernel" =>
           files'[args.dst_rootfs_part] = files[args.dst_rootfs_part]
    ]_vars

\* C9 witness: the second operation of the kernel's list failed; the kernel
\* destination holds what the first operation wrote and what the second wrote
\* before failing, and the rootfs destination still has the manifest's digest.
C9_Witness ==
  /\ FailedIn("ops") /\ failed_at[1] = "ApplyingKernel" /\ failed_at[3] = 2
  /\ LET b == payload.manifest.block_size
         dst == files[args.dst_kernel_part].data
     IN /\ SubSeq(dst, 1, b) = Fill(1, b)
        /\ SubSeq(dst, b + 1, 2 * b) = Fill(1, b)
        /\ dst # snap.prepared
  /\ DigestMatches("rootfs")

-----------------------------------------------------------------------------
(* A MOVE operation applied to a partition file *)

\* Longest extent list of the MOVE operations applied.
MoveMaxExtents == 2

MoveBlockSizes == {1, 2}

\* The partition file: three blocks of bytes that all differ.
MoveContent(b) == [i \in 1..(3 * b) |-> i]

\* The extents of the MOVE operations: one or two blocks from block 0, 1 or
\* 2 (the last runs past the end of the file), and an empty extent.
MoveExtents ==
  {Extent(st, n) : st \in 0..2, n \in 1..2} \cup {Extent(1, 0)}

\* The values the variables of Run keep in the specifications of single calls.
RunIdle ==
  /\ args = [dst_kernel_part |-> None, dst_rootfs_part |-> None,
             src_kernel_part |-> None, src_rootfs_part |-> None]
  /\ payload = [kind |-> "full"]
  /\ files = [p \in Paths |-> NoFile]
  /\ step = "none"
  /\ op_idx = 0
  /\ handles = {}
  /\ error = NoError
  /\ executed = <<>>
  /\ io_log = <<>>
  /\ tmp_files = {}
  /\ snap = [prepared |-> <<>>]
  /\ failed_at = <<>>

MoveInit ==
  /\ pc = "MoveReady"
  /\ unit = [in |-> <<>>, out |-> <<>>]
  /\ RunIdle

\* _ApplyMoveOperation(op, op_name, part_file) on an open partition file.
MoveCall ==
  /\ pc = "MoveReady"
  /\ \E b \in MoveBlockSizes :
     \E src \in SeqsUpTo(MoveExtents, MoveMaxExtents) :
     \E dst \in SeqsUpTo(MoveExtents, MoveMaxExtents) :
       LET op == Op(OpMove, src, dst, 0, 0, 0, 0) IN
       unit' = [in |-> [op |-> op, content |-> MoveContent(b), block_size |-> b],
                out |-> ApplyMoveOperation(op, MoveContent(b), b)]
  /\ pc' = "MoveDone"
  /\ UNCHANGED <<args, payload, files, step, op_idx, handles, error, executed,
                 io_log, tmp_files, snap, failed_at>>

MoveNext == MoveCall

SpecMove == MoveInit /\ [][MoveNext]_vars

BytesAt(content, offsets) == [j \in 1..Len(offsets) |-> content[offsets[j] + 1]]

Capacity(extents, block_size) == Len(ExtentOffsets(extents, 1, block_size))

\* No byte belongs to two of the extents.
NonOverlapping(extents, block_size) ==
  LET offs == ExtentOffsets(extents, 1, block_size) IN
  \A j, k \in 1..Len(offs) : j # k => offs[j] # offs[k]

\* Every extent that holds a byte ends inside the file.
WithinFile(extents, block_size, content) ==
  \A i \in 1..Len(extents) :
    \/ extents[i].num_blocks = 0
    \/ (extents[i].start_block + extents[i].num_blocks) * block_size <= Len(content)

\* The accesses are reads up to some point and writes from there on.
ReadsBeforeWrites(io) ==
  \A j, k \in 1..Len(io) : (io[j].kind = "read" /\ io[k].kind = "write") => j < k

\* C10: for a MOVE whose destination extents do not overlap each other and
\* hold as many bytes as its source extents, the bytes at the destination
\* extents after the operation are the bytes that were at the source extents
\* before it, whatever the overlap of source and destination: every read
\* comes before the first write.  (Source extents past the end of the file
\* make the read fail before anything is written.)
C10_MoveCopiesSource ==
  pc = "MoveDone" =>
    LET op == unit.in.op
        b == unit.in.block_size
        before == unit.in.content
        after == unit.out.content
    IN (NonOverlapping(op.dst_extents, b)
        /\ Capacity(op.dst_extents, b) = Capacity(op.src_extents, b)) =>
         /\ ReadsBeforeWrites(unit.out.io)
         /\ IF WithinFile(op.src_extents, b, before)
            THEN /\ BytesAt(after, ExtentOffsets(op.dst_extents, 1, b))
                      = BytesAt(before, ExtentOffsets(op.src_extents, 1, b))
                 /\ (\A i \in 1..Len(op.dst_extents) :
                       op.dst_extents[i].num_blocks > 0) => unit.out.err = NoError
            ELSE unit.out.err = "EOFError" /\ after = before

\* C10 witness: a MOVE of two source extents onto destination extents that
\* overlap them; it succeeded and changed the file.
C10_Witness ==
  /\ pc = "MoveDone"
  /\ unit.out.err = NoError
  /\ LET op == unit.in.op
         b == unit.in.block_size
         so == ExtentOffsets(op.src_extents, 1, b)
         do == ExtentOffsets(op.dst_extents, 1, b)
     IN /\ Len(op.src_extents) = 2 /\ Len(op.dst_extents) = 2
        /\ NonOverlapping(op.dst_extents, b)
        /\ Len(so) = Len(do)
        /\ \E j, k \in 1..Len(so) : j < k /\ do[j] = so[k]
        /\ \E j, k \in 1..Len(so) : j < k /\ so[j] = do[k]
        /\ BytesAt(unit.out.content, do) = BytesAt(unit.in.content, so)
        /\ unit.out.content # unit.in.content

-----------------------------------------------------------------------------
(* _WriteExtents applied to a partition file *)

\* Longest data written by the calls of _WriteExtents.
WriteMaxData == 5

\* The data to write: bytes that all differ, and differ from the file's.
WriteData(n) == [i \in 1..n |-> 10 + i]

WriteInit ==
  /\ pc = "WriteReady"
  /\ unit = [in |-> <<>>, out |-> <<>>]
  /\ RunIdle

\* _WriteExtents(file_obj, data, extents, block_size, base_name)
WriteCall ==
  /\ pc = "WriteReady"
  /\ \E b \in MoveBlockSizes :
     \E n \in 0..WriteMaxData :
     \E extents \in SeqsUpTo(MoveExtents, MoveMaxExtents) :
       unit' = [in |-> [content |-> MoveContent(b), data |-> WriteData(n),
                        extents |-> extents, block_size |-> b],
                out |-> WriteExtents(MoveContent(b), WriteData(n), extents, b)]
  /\ pc' = "WriteDone"
  /\ UNCHANGED <<args, payload, files, step, op_idx, handles, error, executed,
                 io_log, tmp_files, snap, failed_at>>

WriteNext == WriteCall

SpecWrite == WriteInit /\ [][WriteNext]_vars

\* The capacity of the first n extents.
PrefixCapacity(extents, n, block_size) ==
  Capacity(SubSeq(extents, 1, n), block_size)

\* C17 as stated: _WriteExtents returns normally only when the data is as long
\* as the total capacity of the extents; shorter data, also data that ends
\* inside the last extent it reaches, fails with ExtentMismatch.
C17_ExactFit ==
  pc = "WriteDone" =>
    LET in == unit.in
        cap == Capacity(in.extents, in.block_size)
    IN /\ unit.out.err = NoError => Len(in.data) = cap
       /\ Len(in.data) < cap => unit.out.err = "ExtentMismatch"

\* C18: _WriteExtents fails with ExtentMismatch when the data is longer than
\* the total capacity of the extents, and when an extent is reached with all
\* the data already consumed by the extents before it (empty data with at
\* least one extent included); nothing else makes it fail.
C18_ExtentMismatch ==
  pc = "WriteDone" =>
    LET in == unit.in
        b == in.block_size
        leftover == Len(in.data) > Capacity(in.extents, b)
        idle_extent == \E i \in 1..Len(in.extents) :
                         PrefixCapacity(in.extents, i - 1, b) >= Len(in.data)
    IN /\ leftover => unit.out.err = "ExtentMismatch"
       /\ idle_extent => unit.out.err = "ExtentMismatch"
       /\ unit.out.err \in {NoError, "ExtentMismatch"}
       /\ unit.out.err = "ExtentMismatch" => (leftover \/ idle_extent)

\* C18 witness: data longer than the two extents hold; both extents were
\* written and the call failed.
C18_Witness ==
  /\ pc = "WriteDone"
  /\ Len(unit.in.extents) = 2
  /\ Len(unit.in.data) > Capacity(unit.in.extents, unit.in.block_size)
  /\ Len(unit.out.io) = 2
  /\ unit.out.content # unit.in.content
  /\ unit.out.err = "ExtentMismatch"

\* C18 witness of the other case: an extent reached after the data ran out.
C18_IdleExtentReached ==
  /\ pc = "WriteDone"
  /\ Len(unit.in.extents) = 2 /\ Len(unit.in.data) > 0
  /\ Len(unit.out.io) = 1
  /\ unit.out.err = "ExtentMismatch"

-----------------------------------------------------------------------------
(* A REPLACE or REPLACE_BZ operation applied to a partition file *)

\* Blocks of the partition, as declared to _ApplyReplaceOperation.
ReplaceBlocks == 3

\* Longest extent list of the REPLACE operations applied.
ReplaceMaxExtents == 2

\* Longest data (after decompression) of the REPLACE operations applied.
ReplaceMaxData == 5

ReplaceBlockSizes == {2}

\* The partition file: bytes that all differ and are not zero.
ReplaceContent(b) == [i \in 1..(ReplaceBlocks * b) |-> 20 + i]

\* The data of the operation: bytes that all differ, are not zero and are not
\* in the file.
ReplaceData(n) == [i \in 1..n |-> 10 + i]

\* The extents: one or two blocks from any block of the partition (the last
\* ones run past its end), pseudo extents, and an empty extent.
ReplaceExtents ==
  {Extent(st, n) : st \in (0..(ReplaceBlocks - 1)) \cup {PSEUDO_EXTENT_MARKER},
                   n \in 1..2}
  \cup {Extent(0, 0)}

\* The blob of an operation: the data as it is, its bzip2 stream, or (bad)
\* the data as it is in an operation marked REPLACE_BZ.
ReplaceBlob(enc, data) == IF enc = "bz" THEN Bz2Compress(data) ELSE data

ReplaceInit ==
  /\ pc = "ReplaceReady"
  /\ unit = [in |-> <<>>, out |-> <<>>]
  /\ RunIdle

\* _ApplyReplaceOperation(op, op_name, out_data, part_file, part_size)
ReplaceCall ==
  /\ pc = "ReplaceReady"
  /\ \E b \in ReplaceBlockSizes :
     \E n \in 0..ReplaceMaxData :
     \E enc \in {"raw", "bz", "bad"} :
     \E dst \in SeqsUpTo(ReplaceExtents, ReplaceMaxExtents) :
       LET blob == ReplaceBlob(enc, ReplaceData(n))
           op == Op(IF enc = "raw" THEN OpReplace ELSE OpReplaceBz, <<>>, dst,
                    0, Len(blob), 0, 0)
       IN unit' = [in |-> [op |-> op, blob |-> blob, plain |-> ReplaceData(n),
                           valid |-> enc # "bad",
                           content |-> ReplaceContent(b),
                           part_size |-> ReplaceBlocks * b, block_size |-> b],
                   out |-> ApplyReplaceOperation(op, blob, ReplaceContent(b),
                                                 ReplaceBlocks * b, b)]
  /\ pc' = "ReplaceDone"
  /\ UNCHANGED <<args, payload, files, step, op_idx, handles, error, executed,
                 io_log, tmp_files, snap, failed_at>>

ReplaceNext == ReplaceCall

SpecReplace == ReplaceInit /\ [][ReplaceNext]_vars

IsPseudo(ex) == ex.start_block = PSEUDO_EXTENT_MARKER

\* The indices of the real extents of a list, in order.
RealIdx(extents) ==
  LET IsReal(i) == ~IsPseudo(extents[i])
  IN SelectSeq([i \in 1..Len(extents) |-> i], IsReal)

\* The writes among the accesses, in order.
Writes(io) == LET IsWrite(e) == e.kind = "write" IN SelectSeq(io, IsWrite)

\* The bytes of a sequence of writes, in order.
RECURSIVE WrittenBytes(_, _)
WrittenBytes(w, k) ==
  IF k > Len(w) THEN <<>> ELSE w[k].data \o WrittenBytes(w, k + 1)

RoundUp(n, b) == ((n + b - 1) \div b) * b

\* The i-th extent is real and ends past the partition's declared size.
Overruns(in, i) ==
  /\ ~IsPseudo(in.op.dst_extents[i])
  /\ (in.op.dst_extents[i].start_block + in.op.dst_extents[i].num_blocks)
       * in.block_size > in.part_size

\* Where the data of the i-th extent starts and ends: the capacities of the
\* extents before it, pseudo ones included.
SliceStart(in, i) == PrefixCapacity(in.op.dst_extents, i - 1, in.block_size)
SliceEnd(in, i) == PrefixCapacity(in.op.dst_extents, i, in.block_size)

\* By how much the data falls short of the end of the i-th extent's slice.
Shortfall(in, i) == SliceEnd(in, i) - Len(in.plain)

\* The slice of the i-th extent, padded with zeros where the data has ended.
PaddedSlice(in, i) ==
  Slice(in.plain \o Fill(0, Max(0, Shortfall(in, i))),
        SliceStart(in, i), SliceEnd(in, i))

\* The k-th real extent was reached (every real extent before it was
\* written), and was written.
ReachedReal(out, k) == Len(Writes(out.io)) >= k - 1
WrittenReal(out, k) == Len(Writes(out.io)) >= k

C14_BytesWritten ==
  (pc = "ReplaceDone" /\ unit.in.valid /\ unit.out.err = NoError
   /\ \A i \in 1..Len(unit.in.op.dst_extents) : ~IsPseudo(unit.in.op.dst_extents[i])) =>
    LET in == unit.in
        w == Writes(unit.out.io)
        L == Len(in.plain)
        total == Len(WrittenBytes(w, 1))
    IN /\ total = RoundUp(L, in.block_size)
       /\ total - L < in.block_size
       /\ WrittenBytes(w, 1) = in.plain \o Fill(0, total - L)
       /\ Len(w) = Len(in.op.dst_extents)

\* C14 witness: a REPLACE_BZ of two extents whose data ends inside a block.
C14_Witness ==
  /\ pc = "ReplaceDone" /\ unit.in.valid /\ unit.out.err = NoError
  /\ unit.in.op.type = OpReplaceBz
  /\ Len(unit.in.op.dst_extents) = 2
  /\ \A i \in 1..2 : ~IsPseudo(unit.in.op.dst_extents[i])
                       /\ unit.in.op.dst_extents[i].num_blocks > 0
  /\ Len(unit.in.plain) % unit.in.block_size # 0
  /\ Len(WrittenBytes(Writes(unit.out.io), 1)) = Len(unit.in.plain) + 1

\* C20: a pseudo extent of a REPLACE/REPLACE_BZ operation causes no access to
\* the partition file and no overrun or data-sufficiency failure, and
\* consumes num_blocks * block_size of the data: the writes are those of the
\* real extents, in order, each at its extent's offset with the slice of the
\* data that starts at the capacities of all the extents before it; only a
\* real extent raises ExtentOverrun or InsufficientData; an operation of
\* pseudo extents alone leaves the file as it was.
C20_PseudoExtents ==
  (pc = "ReplaceDone" /\ unit.in.valid) =>
    LET in == unit.in
        out == unit.out
        exts == in.op.dst_extents
        real == RealIdx(exts)
        w == Writes(out.io)
    IN /\ Len(w) <= Len(real)
       /\ Len(out.io) = 2 * Len(w)
       /\ \A k \in 1..Len(w) :
            /\ w[k].off = exts[real[k]].start_block * in.block_size
            /\ w[k].data = PaddedSlice(in, real[k])
       /\ out.err = NoError => Len(w) = Len(real)
       /\ out.err \in {"ExtentOverrun", "InsufficientData"} => Len(w) < Len(real)
       /\ Len(real) = 0 =>
            /\ out.content = in.content
            /\ out.err = IF Capacity(exts, in.block_size) < Len(in.plain)
                          THEN "ShortWrite" ELSE NoError

\* C20 witness: a pseudo extent of one block followed by a real extent; the
\* real extent receives the second block of the data.
C20_Witness ==
  /\ pc = "ReplaceDone" /\ unit.in.valid /\ unit.out.err = NoError
  /\ Len(unit.in.op.dst_extents) = 2
  /\ IsPseudo(unit.in.op.dst_extents[1]) /\ ~IsPseudo(unit.in.op.dst_extents[2])
  /\ unit.in.op.dst_extents[1].num_blocks = 1
  /\ Len(unit.in.plain) = 2 * unit.in.block_size
  /\ Len(Writes(unit.out.io)) = 1
  /\ Writes(unit.out.io)[1].data
       = SubSeq(unit.in.plain, unit.in.block_size + 1, 2 * unit.in.block_size)

\* C32 as stated: an operation whose destination extents, pseudo ones
\* included, cover fewer bytes than the data fails with ShortWrite, after
\* every real extent was written.
C32_Original ==
  (pc = "ReplaceDone" /\ unit.in.valid
   /\ Capacity(unit.in.op.dst_extents, unit.in.block_size) < Len(unit.in.plain)) =>
    /\ unit.out.err = "ShortWrite"
    /\ Len(Writes(unit.out.io)) = Len(RealIdx(unit.in.op.dst_extents))

\* C32: an operation whose destination extents, pseudo ones included, cover
\* fewer bytes than the data fails: with ExtentOverrun, at the first real
\* extent that ends past the partition size, if there is one, and with
\* ShortWrite otherwise. ShortWrite is raised for nothing else, and only after
\* every real extent was written with its slice of the data, unpadded.
C32_ShortWrite ==
  (pc = "ReplaceDone" /\ unit.in.valid) =>
    LET in == unit.in
        out == unit.out
        exts == in.op.dst_extents
        real == RealIdx(exts)
        w == Writes(out.io)
        short == Capacity(exts, in.block_size) < Len(in.plain)
        overrun == \E k \in 1..Len(real) : Overruns(in, real[k])
    IN /\ short => out.err = IF overrun THEN "ExtentOverrun" ELSE "ShortWrite"
       /\ out.err = "ShortWrite" =>
            /\ short
            /\ Len(w) = Len(real)
            /\ \A k \in 1..Len(w) :
                 /\ w[k].off = exts[real[k]].start_block * in.block_size
                 /\ w[k].data = Slice(in.plain, SliceStart(in, real[k]),
                                      SliceEnd(in, real[k]))

\* C32 witness: five bytes for two extents of one block each: both blocks are
\* written, then the operation fails.
C32_Witness ==
  /\ pc = "ReplaceDone" /\ unit.in.valid
  /\ unit.out.err = "ShortWrite"
  /\ Len(unit.in.op.dst_extents) = 2
  /\ Len(Writes(unit.out.io)) = 2
  /\ Len(unit.in.plain) = Capacity(unit.in.op.dst_extents, unit.in.block_size) + 1
  /\ unit.out.content # unit.in.content

\* The data has ended before the i-th extent is filled: the slice of an
\* earlier real extent ended beyond the data, or the slice of the i-th starts
\* beyond it.
DataEndedBefore(in, i) ==
  \/ SliceStart(in, i) > Len(in.plain)
  \/ \E j \in 1..(i - 1) : /\ ~IsPseudo(in.op.dst_extents[j])
                           /\ SliceEnd(in, j) > Len(in.plain)

\* C33 as stated: a real extent of one block or more that the operation
\* reaches after the data has ended fails the operation with InsufficientData.
C33_Original ==
  (pc = "ReplaceDone" /\ unit.in.valid) =>
    LET in == unit.in
        out == unit.out
        exts == in.op.dst_extents
        real == RealIdx(exts)
    IN \A k \in 1..Len(real) :
         (ReachedReal(out, k) /\ exts[real[k]].num_blocks >= 1
          /\ DataEndedBefore(in, real[k])) =>
           /\ out.err = "InsufficientData"
           /\ ~WrittenReal(out, k)

\* C33: a real extent of one block or more that the operation reaches after
\* the data has ended is not written and fails the operation: with
\* ExtentOverrun if it ends past the partition size, with InsufficientData
\* otherwise. So every real extent of one block or more that is written holds
\* at least one byte of the data, and only the last of them holds padding.
C33_PaddingOnlyLast ==
  (pc = "ReplaceDone" /\ unit.in.valid) =>
    LET in == unit.in
        out == unit.out
        exts == in.op.dst_extents
        real == RealIdx(exts)
        w == Writes(out.io)
    IN /\ \A k \in 1..Len(real) :
            (ReachedReal(out, k) /\ exts[real[k]].num_blocks >= 1
             /\ DataEndedBefore(in, real[k])) =>
              /\ out.err = IF Overruns(in, real[k]) THEN "ExtentOverrun"
                           ELSE "InsufficientData"
              /\ ~WrittenReal(out, k)
       /\ \A k \in 1..Len(w) :
            exts[real[k]].num_blocks >= 1 =>
              /\ SliceStart(in, real[k]) < Len(in.plain)
              /\ w[k].data[1] = in.plain[SliceStart(in, real[k]) + 1]
              /\ Shortfall(in, real[k]) > 0 =>
                   \A m \in (k + 1)..Len(w) : exts[real[m]].num_blocks = 0

\* C33 witness: one byte for two real extents of one block: the first is
\* written with a byte of padding, the second fails the operation.
C33_Witness ==
  /\ pc = "ReplaceDone" /\ unit.in.valid
  /\ Len(unit.in.plain) = 1
  /\ Len(unit.in.op.dst_extents) = 2
  /\ \A i \in 1..2 : /\ ~IsPseudo(unit.in.op.dst_extents[i])
                     /\ unit.in.op.dst_extents[i].num_blocks = 1
                     /\ ~Overruns(unit.in, i)
  /\ Len(Writes(unit.out.io)) = 1
  /\ Writes(unit.out.io)[1].data = unit.in.plain \o <<0>>
  /\ unit.out.err = "InsufficientData"

-----------------------------------------------------------------------------
(* Run on payloads whose operations read the partition (MOVE, BSDIFF) *)

\* Longest rootfs operation list of these payloads.
OpsMaxOps == 2

\* Blocks of a partition of these payloads.
OpsPartBlocks == 4

OpsBytes(b) == OpsPartBlocks * b

\* The data section: the data of the REPLACE (two blocks of bytes that all
\* differ), then the patch of the BSDIFF operations.
OpsReplaceData(b) == [i \in 1..(2 * b) |-> 10 + i]
OpsBlob(b) == OpsReplaceData(b) \o <<99>>

\* The source partitions: bytes that all differ and are not in the blob.
OpsSrcImage(b) == [i \in 1..OpsBytes(b) |-> 30 + i]

\* REPLACE writes the two blocks of data to blocks 0-1.
OpsReplaceOp(b) == Op(OpReplace, <<>>, <<Extent(0, 2)>>, 0, 2 * b, 0, 0)

\* MOVE copies blocks 0-1 to the last two blocks.
OpsMoveOp == Op(OpMove, <<Extent(0, 2)>>, <<Extent(OpsPartBlocks - 2, 2)>>, 0, 0, 0, 0)

\* BSDIFF patches block 0 into block 1; dst_length is one block, or one byte
\* more than the destination extent holds once padded.
OpsBsdiffOp(b, dst_length) ==
  Op(OpBsdiff, <<Extent(0, 1)>>, <<Extent(1, 1)>>, 2 * b, 1, b, dst_length)

\* MOVE copies block 0 to the block after the last block of the partition.
OpsMoveOutOp == Op(OpMove, <<Extent(0, 1)>>, <<Extent(OpsPartBlocks, 1)>>, 0, 0, 0, 0)

\* An operation of a type the applier does not know, with a destination.
OpsUnknownOp == Op("ZERO", <<>>, <<Extent(0, 1)>>, 0, 0, 0, 0)

OpsCatalog(b) ==
  {OpsReplaceOp(b), OpsMoveOp, OpsBsdiffOp(b, b), OpsBsdiffOp(b, b + 1),
   OpsMoveOutOp, OpsUnknownOp}

\* The partition before the operations: preallocated, or a copy of the source.
OpsBase(kind, b) == IF kind = "full" THEN Fill(0, OpsBytes(b)) ELSE OpsSrcImage(b)

\* The images a payload may declare as the new rootfs: the base with blocks
\* 0-1 replaced; with the last two blocks a copy of them as well; with block
\* 1 patched.
OpsNewImages(kind, b) ==
  LET base == OpsBase(kind, b)
      rest == SubSeq(base, 2 * b + 1, OpsBytes(b))
      mid == SubSeq(base, 2 * b + 1, OpsBytes(b) - 2 * b)
  IN { OpsReplaceData(b) \o rest,
       OpsReplaceData(b) \o mid \o OpsReplaceData(b),
       SubSeq(OpsReplaceData(b), 1, b) \o Fill(4, b) \o rest }

OpsPayloadsOf(k, b) ==
  { [kind |-> k, blob |-> OpsBlob(b),
     manifest |-> [block_size |-> b,
                   install_operations |-> rops,
                   kernel_install_operations |-> <<>>,
                   old_rootfs_info |-> oi, old_kernel_info |-> oi,
                   new_rootfs_info |-> Info(OpsBytes(b), img),
                   new_kernel_info |-> Info(OpsBytes(b), OpsBase(k, b))]] :
      rops \in SeqsUpTo(OpsCatalog(b), OpsMaxOps),
      oi \in IF k = "full" THEN {UnsetInfo}
             ELSE {Info(OpsBytes(b), OpsSrcImage(b))},
      img \in OpsNewImages(k, b) }

OpsPayloads ==
  UNION {OpsPayloadsOf(k, b) : k \in {"full", "delta"}, b \in BlockSizes}

\* The arguments Run accepts for a payload of the kind.
OpsArgs(kind) ==
  [dst_kernel_part |-> "dst_kernel", dst_rootfs_part |-> "dst_rootfs",
   src_kernel_part |-> IF kind = "full" THEN None ELSE "src_kernel",
   src_rootfs_part |-> IF kind = "full" THEN None ELSE "src_rootfs"]

OpsInit ==
  /\ pc = "Idle"
  /\ payload \in OpsPayloads
  /\ args = OpsArgs(payload.kind)
  /\ files = [p \in Paths |->
                IF p \in {"src_rootfs", "src_kernel"}
                THEN File(OpsSrcImage(payload.manifest.block_size)) ELSE NoFile]
  /\ step = "none"
  /\ op_idx = 0
  /\ handles = {}
  /\ error = NoError
  /\ executed = <<>>
  /\ io_log = <<>>
  /\ tmp_files = {}
  /\ snap = [prepared |-> <<>>]
  /\ failed_at = <<>>
  /\ unit = [tool |-> NoTool]

SpecOps == OpsInit /\ [][Next]_vars

\* The operation the next turn of the loop of _ApplyOperations applies.
CurOp == PartOps(CurPart)[op_idx]

\* The step applies the operation CurOp.
OpStep == Applying /\ step = "ops" /\ executed' # executed

\* The accesses the step adds to the log.
NewIo == SubSeq(io_log', Len(io_log) + 1, Len(io_log'))

\* C11: a MOVE sees what the earlier operations of its list wrote: when a
\* list begins with a REPLACE and a MOVE whose source extents are the
\* destination extents of the REPLACE, then once both are applied the
\* destination extents of the MOVE hold the bytes the REPLACE wrote (its data
\* blob), not what the partition held before.
C11_MoveSeesEarlierWrites ==
  \A part \in Parts :
    LET ops == PartOps(part)
        b == payload.manifest.block_size
    IN (/\ Len(ops) >= 2
        /\ ops[1].type = OpReplace /\ ops[2].type = OpMove
        /\ ops[2].src_extents = ops[1].dst_extents
        /\ Applying /\ CurPart = part /\ step = "ops" /\ op_idx = 3) =>
         /\ BytesAt(files[DstPath(part)].data,
                    ExtentOffsets(ops[2].dst_extents, 1, b))
              = ReadAt(payload.blob, ops[1].data_offset, ops[1].data_length)
         /\ BytesAt(files[DstPath(part)].data,
                    ExtentOffsets(ops[2].dst_extents, 1, b))
              # BytesAt(snap.prepared, ExtentOffsets(ops[2].src_extents, 1, b))

\* C11 witness: REPLACE then MOVE were applied to the rootfs, and the last
\* two blocks hold the data of the REPLACE.
C11_Witness ==
  /\ pc = "ApplyingRoot" /\ step = "ops" /\ op_idx = 3
  /\ PartOps("rootfs") = <<OpsReplaceOp(payload.manifest.block_size), OpsMoveOp>>
  /\ SubSeq(files[args.dst_rootfs_part].data,
            OpsBytes(payload.manifest.block_size) - 2 * payload.manifest.block_size + 1,
            OpsBytes(payload.manifest.block_size))
       = OpsReplaceData(payload.manifest.block_size)

\* C15: a BSDIFF operation whose patch tool exits with status 0 and leaves
\* an output of a length other than dst_length fails, and Run with it, with
\* PatchLengthMismatch, without a write to any partition file: no file is
\* changed by the step; nothing else raises PatchLengthMismatch.
C15_PatchLengthMismatch ==
  [][ /\ (OpStep /\ CurOp.type = OpBsdiff /\ unit'.tool.rc = 0
          /\ Len(unit'.tool.out) # CurOp.dst_length) =>
           /\ pc' = "Failed" /\ error' = "PatchLengthMismatch"
           /\ files' = files
           /\ \A i \in 1..Len(NewIo) : NewIo[i].kind # "write"
      /\ (error' = "PatchLengthMismatch" /\ error = NoError) =>
           /\ OpStep /\ CurOp.type = OpBsdiff
           /\ unit'.tool.rc = 0 /\ Len(unit'.tool.out) # CurOp.dst_length
    ]_vars

\* C15 witness: the second operation of the rootfs, a BSDIFF, failed with
\* PatchLengthMismatch; the rootfs holds what the first operation wrote and
\* nothing else.
C15_Witness ==
  /\ pc = "Failed" /\ error = "PatchLengthMismatch"
  /\ failed_at = <<"ApplyingRoot", "ops", 2>>
  /\ PartOps("rootfs")[1].type = OpReplace
  /\ files[args.dst_rootfs_part].data
       = WriteAt(snap.prepared, 0, OpsReplaceData(payload.manifest.block_size))

\* C16 as stated: no temporary file of a BSDIFF operation is left once the
\* operation has ended, whether it succeeded or failed, and none exists once
\* Run has returned or failed.
C16_TempFilesRemoved ==
  /\ pc \in {"Done", "Failed"} => tmp_files = {}
  /\ (Applying /\ step = "ops") => tmp_files = {}

\* C19 as stated: applying a MOVE operation makes no access to the data blob
\* of the payload.
C19_MoveReadsNoBlob ==
  [][ (OpStep /\ CurOp.type = OpMove) =>
        \A i \in 1..Len(NewIo) : NewIo[i].kind # "blob_read" ]_vars

-----------------------------------------------------------------------------
(* _ReadExtents applied to a partition file *)

\* Largest max_length of the calls of _ReadExtents.
ReadMaxLength == 5

ReadInit ==
  /\ pc = "ReadReady"
  /\ unit = [in |-> <<>>, out |-> <<>>]
  /\ RunIdle

\* _ReadExtents(file_obj, extents, block_size, max_length)
ReadCall ==
  /\ pc = "ReadReady"
  /\ \E b \in MoveBlockSizes :
     \E ml \in (-1)..ReadMaxLength :
     \E extents \in SeqsUpTo(MoveExtents, MoveMaxExtents) :
       unit' = [in |-> [content |-> MoveContent(b), extents |-> extents,
                        block_size |-> b, max_length |-> ml],
                out |-> ReadExtents(MoveContent(b), extents, b, ml)]
  /\ pc' = "ReadDone"
  /\ UNCHANGED <<args, payload, files, step, op_idx, handles, error, executed,
                 io_log, tmp_files, snap, failed_at>>

ReadNext == ReadCall

SpecRead == ReadInit /\ [][ReadNext]_vars

\* The number of extents a read capped at ml bytes goes through: up to the
\* first whose end reaches ml.
ExtentsNeeded(extents, block_size, ml) ==
  IF \E k \in 0..Len(extents) : PrefixCapacity(extents, k, block_size) >= ml
  THEN CHOOSE k \in 0..Len(extents) :
         /\ PrefixCapacity(extents, k, block_size) >= ml
         /\ \A j \in 0..(k - 1) : PrefixCapacity(extents, j, block_size) < ml
  ELSE Len(extents)

\* C21: for extents that lie inside the file, _ReadExtents returns the bytes
\* of the extents, concatenated in extent order; capped by a positive
\* max_length it returns exactly the first min(max_length, capacity) of them
\* and reads no extent after the one that exhausts max_length; with a
\* negative max_length it returns them all; with max_length = 0 it reads
\* nothing.
C21_ReadExtents ==
  (pc = "ReadDone"
   /\ WithinFile(unit.in.extents, unit.in.block_size, unit.in.content)) =>
    LET in == unit.in
        out == unit.out
        b == in.block_size
        all == BytesAt(in.content, ExtentOffsets(in.extents, 1, b))
        cap == Capacity(in.extents, b)
    IN /\ out.err = NoError
       /\ \A i \in 1..Len(out.io) :
            /\ out.io[i].kind = "read"
            /\ out.io[i].off = in.extents[i].start_block * b
       /\ IF in.max_length < 0
          THEN out.data = all /\ Len(out.io) = Len(in.extents)
          ELSE /\ out.data = SubSeq(all, 1, Min(in.max_length, cap))
               /\ Len(out.data) = Min(in.max_length, cap)
               /\ Len(out.io) = ExtentsNeeded(in.extents, b, in.max_length)
       /\ in.max_length = 0 => out.io = <<>> /\ out.data = <<>>

\* C21 witness: a read of two extents capped inside the first one; the
\* second extent is not read.
C21_Witness ==
  /\ pc = "ReadDone"
  /\ unit.out.err = NoError
  /\ Len(unit.in.extents) = 2
  /\ unit.in.extents[1].num_blocks = 2 /\ unit.in.extents[2].num_blocks = 1
  /\ unit.in.block_size = 2 /\ unit.in.max_length = 3
  /\ Len(unit.out.io) = 1
  /\ Len(unit.out.data) = 3

-----------------------------------------------------------------------------
(* A BSDIFF operation applied to a partition file *)

\* Largest dst_length, and one less than the longest output of the tool.
BsdiffMaxLength == 4

BsdiffBlockSizes == {2}

\* The output of the tool: bytes that all differ, are not zero and are not
\* in the file.
BsdiffOutput(n) == [i \in 1..n |-> 40 + i]

\* What the tool may do: exit with a failure status, or leave an output.
BsdiffTools ==
  {[rc |-> 1, out |-> <<>>]} \cup
  {[rc |-> 0, out |-> BsdiffOutput(n)] : n \in 0..(BsdiffMaxLength + 1)}

\* The source extents: block 0, or a block past the end of the file.
BsdiffSources == {<<Extent(0, 1)>>, <<Extent(5, 1)>>}

BsdiffInit ==
  /\ pc = "BsdiffReady"
  /\ unit = [in |-> <<>>, out |-> <<>>]
  /\ RunIdle

\* _ApplyBsdiffOperation(op, op_name, patch_data, part_file)
BsdiffCall ==
  /\ pc = "BsdiffReady"
  /\ \E b \in BsdiffBlockSizes :
     \E src \in BsdiffSources :
     \E dst \in SeqsUpTo(MoveExtents, MoveMaxExtents) :
     \E dst_length \in 0..BsdiffMaxLength :
     \E tool \in BsdiffTools :
       LET op == Op(OpBsdiff, src, dst, 0, 1, b, dst_length) IN
       unit' = [in |-> [op |-> op, content |-> MoveContent(b), block_size |-> b,
                        tool |-> tool],
                out |-> ApplyBsdiffOperation(op, "op", <<99>>, MoveContent(b),
                                             b, tool)]
  /\ pc' = "BsdiffDone"
  /\ UNCHANGED <<args, payload, files, step, op_idx, handles, error, executed,
                 io_log, tmp_files, snap, failed_at>>

BsdiffNext == BsdiffCall

SpecBsdiff == BsdiffInit /\ [][BsdiffNext]_vars

\* The number of bytes of a sequence of writes.
RECURSIVE WrittenLength(_, _)
WrittenLength(w, k) ==
  IF k > Len(w) THEN 0 ELSE w[k].len + WrittenLength(w, k + 1)

\* C22: a BSDIFF whose tool exits with status 0 and leaves an output of
\* dst_length bytes writes, through _WriteExtents, the output followed by
\* the zeros that fill its last block (none when dst_length is a multiple of
\* block_size): when the operation succeeds, dst_length rounded up to a block
\* multiple is the number of bytes written, and the destination extents begin
\* with the output and these zeros.  (Destination extents that hold less make
\* the write fail with ExtentMismatch once they are full.)
C22_BsdiffPadding ==
  (/\ pc = "BsdiffDone"
   /\ unit.in.tool.rc = 0
   /\ Len(unit.in.tool.out) = unit.in.op.dst_length
   /\ WithinFile(unit.in.op.src_extents, unit.in.block_size, unit.in.content)) =>
    LET in == unit.in
        out == unit.out
        b == in.block_size
        padded == in.tool.out \o Fill(0, RoundUp(in.op.dst_length, b) - in.op.dst_length)
        total == WrittenLength(Writes(out.io), 1)
        offs == ExtentOffsets(in.op.dst_extents, 1, b)
    IN /\ out.err \in {NoError, "ExtentMismatch"}
       /\ total = Min(Len(padded), Capacity(in.op.dst_extents, b))
       /\ out.err = NoError => total = RoundUp(in.op.dst_length, b)
       /\ Len(padded) - in.op.dst_length < b
       /\ NonOverlapping(in.op.dst_extents, b) =>
            BytesAt(out.content, SubSeq(offs, 1, total)) = SubSeq(padded, 1, total)

\* C22 witness: an output of three bytes written to an extent of two blocks
\* of two bytes, with one zero after it.
C22_Witness ==
  /\ pc = "BsdiffDone"
  /\ unit.out.err = NoError
  /\ unit.in.op.dst_length = 3 /\ unit.in.block_size = 2
  /\ unit.in.op.dst_extents = <<Extent(0, 2)>>
  /\ SubSeq(unit.out.content, 1, 4) = BsdiffOutput(3) \o <<0>>

-----------------------------------------------------------------------------
(* Failures of an operation in Run (checked on the payloads of SpecOps) *)

KnownTypes == {OpReplace, OpReplaceBz, OpMove, OpBsdiff}

NoWriteLogged == \A i \in 1..Len(NewIo) : NewIo[i].kind # "write"

\* C23: a BSDIFF operation whose patch tool exits with a non-zero status
\* fails, and Run with it, with PatchToolFailed: the step changes no file and
\* logs no write, the operation is the last one executed, and Run, once
\* failed, takes no further step (it executes no later operation and does not
\* return); nothing else raises PatchToolFailed.
C23_PatchToolFailed ==
  [][ /\ pc \notin {"Failed", "Done"}
      /\ (OpStep /\ CurOp.type = OpBsdiff /\ unit'.tool.rc # 0) =>
           /\ pc' = "Failed" /\ error' = "PatchToolFailed"
           /\ files' = files
           /\ NoWriteLogged
           /\ executed' = Append(executed, <<CurPart, op_idx>>)
      /\ error' = "PatchToolFailed" =>
           OpStep /\ CurOp.type = OpBsdiff /\ unit'.tool.rc # 0
    ]_vars

\* C23 witness: the first of two operations of the rootfs, a BSDIFF, failed
\* with PatchToolFailed; the second was not executed and the rootfs is as it
\* was prepared.
C23_Witness ==
  /\ pc = "Failed" /\ error = "PatchToolFailed"
  /\ failed_at = <<"ApplyingRoot", "ops", 1>>
  /\ Len(PartOps("rootfs")) = 2
  /\ executed = << <<"rootfs", 1>> >>
  /\ files[args.dst_rootfs_part].data = snap.prepared

\* C24: an operation whose type is none of REPLACE, REPLACE_BZ, MOVE, BSDIFF
\* (its data blob, read first, being readable) makes the apply fail with
\* UnknownOperation: the step changes no file and logs no write, and no
\* operation after it is executed; an operation of a known type never raises
\* UnknownOperation.
C24_UnknownOperation ==
  [][ /\ (OpStep /\ CurOp.type \notin KnownTypes) =>
           /\ pc' = "Failed" /\ error' = "UnknownOperation"
           /\ failed_at' = <<pc, "ops", op_idx>>
           /\ files' = files
           /\ NoWriteLogged
      /\ error' = "UnknownOperation" =>
           /\ OpStep /\ CurOp.type \notin KnownTypes
      /\ error = "UnknownOperation" => executed' = executed
    ]_vars

\* C24 witness: the first of two operations of the rootfs has an unknown
\* type; the apply failed and the second operation was not executed.
C24_Witness ==
  /\ pc = "Failed" /\ error = "UnknownOperation"
  /\ failed_at = <<"ApplyingRoot", "ops", 1>>
  /\ Len(PartOps("rootfs")) = 2
  /\ PartOps("rootfs")[1].type \notin KnownTypes
  /\ executed = << <<"rootfs", 1>> >>
  /\ files[args.dst_rootfs_part].data = snap.prepared

\* C27 as stated: no operation writes past the declared size of its
\* destination partition: the destination never holds more than
\* dst_info.size bytes.
C27_WritesWithinPartition ==
  \A part \in Parts :
    (Given(DstPath(part)) /\ files[DstPath(part)].exists) =>
      Len(files[DstPath(part)].data) <= DstInfo(part).size

-----------------------------------------------------------------------------
(* File handles of Run *)

\* C25: every handle the applier opens on a partition file is closed on
\* every exit path: once Run has returned or failed (a source or destination
\* digest mismatch, an error of an operation), no handle is open; while Run
\* is going, the only handle open between two steps is the destination of the
\* partition whose operations are being applied.
C25_HandlesClosed ==
  /\ pc \in {"Done", "Failed"} => handles = {}
  /\ handles = IF Applying /\ step = "ops"
               THEN {Handle(DstPath(CurPart), "r+b")} ELSE {}

\* C25 witness: an operation of the kernel failed with the kernel
\* destination open for writing; no handle is left open.
C25_Witness ==
  /\ FailedIn("ops") /\ failed_at[1] = "ApplyingKernel"
  /\ executed # <<>>
  /\ handles = {}

-----------------------------------------------------------------------------
(* Run onto destination files that exist already *)

\* What a destination file may hold before Run: bytes of an earlier use, as
\* long as the partition or one block longer.
StaleImages(b) == {Fill(7, OpsBytes(b)), Fill(7, OpsBytes(b) + b)}

StaleInit ==
  /\ pc = "Idle"
  /\ payload \in OpsPayloads
  /\ args = OpsArgs(payload.kind)
  /\ \E img \in StaleImages(payload.manifest.block_size) :
       files = [p \in Paths |->
                  IF p \in {"src_rootfs", "src_kernel"}
                  THEN File(OpsSrcImage(payload.manifest.block_size))
                  ELSE IF p = "dst_rootfs" THEN File(img) ELSE NoFile]
  /\ step = "none"
  /\ op_idx = 0
  /\ handles = {}
  /\ error = NoError
  /\ executed = <<>>
  /\ io_log = <<>>
  /\ tmp_files = {}
  /\ snap = [prepared |-> <<>>]
  /\ failed_at = <<>>
  /\ unit = [tool |-> NoTool]

SpecStale == StaleInit /\ [][Next]_vars

\* What the destination of a partition is to hold before its operations: a
\* copy of the source, or dst_info.size zero bytes.
InitialImage(part) ==
  IF Given(SrcPath(part)) THEN files[SrcPath(part)].data
  ELSE Fill(0, DstInfo(part).size)

\* The destination extents of the operations of a partition executed so far.
RECURSIVE ExecutedExtents(_, _)
ExecutedExtents(part, n) ==
  IF n = 0 THEN <<>>
  ELSE ExecutedExtents(part, n - 1) \o PartOps(part)[n].dst_extents

\* C28 as stated: when a partition's operations begin, its destination is a
\* copy of the source (delta) or dst_info.size zero bytes (full); while and
\* after they run, every byte outside the destination extents of the
\* operations executed still has that value.
C28_InitialImageKept ==
  (Applying /\ step \in {"ops", "verify"}) =>
    /\ snap.prepared = InitialImage(CurPart)
    /\ ChangedOnlyIn(InitialImage(CurPart), files[DstPath(CurPart)].data,
                     ExecutedExtents(CurPart, Len(ExecutedOf(CurPart))),
                     payload.manifest.block_size)

-----------------------------------------------------------------------------
(* _ApplyOperations of the two partitions on two workers, one payload file *)

ConcMaxOps == 2
ConcPartBlocks == 2
ConcBlockSize == 2

\* The data section of the payload: one block of data per REPLACE.
ConcBlob == [i \in 1..(2 * ConcBlockSize) |-> 10 + i]

\* The operations a worker may be given: a REPLACE of either block from either
\* half of the data section, and a MOVE (which has no blob).
ConcCatalog ==
  {Op(OpReplace, <<>>, <<Extent(blk, 1)>>, off, ConcBlockSize, 0, 0) :
     blk \in 0..(ConcPartBlocks - 1), off \in {0, ConcBlockSize}}
  \cup {Op(OpMove, <<Extent(0, 1)>>, <<Extent(1, 1)>>, 0, 0, 0, 0)}

ConcPayloads ==
  { [kind |-> "full", blob |-> ConcBlob,
     manifest |-> [block_size |-> ConcBlockSize,
                   install_operations |-> rops,
                   kernel_install_operations |-> kops,
                   old_rootfs_info |-> UnsetInfo, old_kernel_info |-> UnsetInfo,
                   new_rootfs_info |-> Info(ConcPartBlocks * ConcBlockSize, <<>>),
                   new_kernel_info |-> Info(ConcPartBlocks * ConcBlockSize, <<>>)]] :
      rops \in SeqsUpTo(ConcCatalog, ConcMaxOps) \ {<<>>},
      kops \in SeqsUpTo(ConcCatalog, ConcMaxOps) \ {<<>>} }

\* A worker at the head of its operation list.
ConcWorker == [op_idx |-> 1, at |-> "seek", data |-> <<>>, err |-> NoError]

\* Both destinations are open and preallocated, the payload file is shared:
\* unit.pos is its position, unit.worker the position of each worker in
\* _ApplyOperations.
ConcInit ==
  /\ pc = "ConcRunning"
  /\ payload \in ConcPayloads
  /\ args = OpsArgs("full")
  /\ files = [p \in Paths |->
                IF p \in {"dst_rootfs", "dst_kernel"}
                THEN File(Fill(0, ConcPartBlocks * ConcBlockSize)) ELSE NoFile]
  /\ step = "ops"
  /\ op_idx = 0
  /\ handles = {Handle("dst_rootfs", "r+b"), Handle("dst_kernel", "r+b")}
  /\ error = NoError
  /\ executed = <<>>
  /\ io_log = <<>>
  /\ tmp_files = {}
  /\ snap = [prepared |-> <<>>]
  /\ failed_at = <<>>
  /\ unit = [pos |-> 0, worker |-> [part \in Parts |-> ConcWorker]]

\* The position the payload file is left at by the seeks of an operation.
LastPayloadSeek(io, pos) ==
  LET IsSeek(e) == e.kind = "payload_seek"
      seeks == SelectSeq(io, IsSeek)
  IN IF seeks = <<>> THEN pos ELSE seeks[Len(seeks)].off

\* The dispatch of _ApplyOperations on the type of the operation, given the
\* blob that was read for it.
ApplyBlob(op, op_name, data, content, part_size, bs, tool) ==
  IF op.type \in {OpReplace, OpReplaceBz}
  THEN LET r == ApplyReplaceOperation(op, data, content, part_size, bs)
       IN [content |-> r.content, io |-> r.io, err |-> r.err]
  ELSE IF op.type = OpMove
  THEN LET r == ApplyMoveOperation(op, content, bs)
       IN [content |-> r.content, io |-> r.io, err |-> r.err]
  ELSE IF op.type = OpBsdiff
  THEN LET r == ApplyBsdiffOperation(op, op_name, data, content, bs, tool)
       IN [content |-> r.content, io |-> r.io, err |-> r.err]
  ELSE [content |-> content, io |-> <<>>, err |-> "UnknownOperation"]

\* A worker's loop has an operation to work on.
ConcAt(part, at) ==
  /\ pc = "ConcRunning"
  /\ unit.worker[part].at = at
  /\ HasItem(PartOps(part), unit.worker[part].op_idx)

\* common.Read, first half: file_obj.seek(offset) on the payload file.
ConcSeek(part) ==
  /\ ConcAt(part, "seek")
  /\ LET op == PartOps(part)[unit.worker[part].op_idx]
     IN unit' = [unit EXCEPT !.pos = op.data_offset,
                             !.worker[part].at = "read"]
  /\ UNCHANGED <<pc, args, payload, files, step, op_idx, handles, error,
                 executed, io_log, tmp_files, snap, failed_at>>

\* common.Read, second half: file_obj.read(length) from wherever the payload
\* file is now; a short read raises and ends the worker.
ConcRead(part) ==
  /\ ConcAt(part, "read")
  /\ LET op == PartOps(part)[unit.worker[part].op_idx]
         data == ReadAt(payload.blob, unit.pos, op.data_length)
     IN unit' = [unit EXCEPT
                   !.pos = unit.pos + Len(data),
                   !.worker[part] =
                     IF Len(data) # op.data_length
                     THEN [@ EXCEPT !.at = "done", !.err = "ReadError"]
                     ELSE [@ EXCEPT !.at = "apply", !.data = data]]
  /\ UNCHANGED <<pc, args, payload, files, step, op_idx, handles, error,
                 executed, io_log, tmp_files, snap, failed_at>>

\* The operation is applied to the worker's own destination with the blob it
\* read; a REPLACE leaves the payload file where it last sought it.
ConcApply(part) ==
  /\ ConcAt(part, "apply")
  /\ LET w == unit.worker[part]
         op == PartOps(part)[w.op_idx]
         r == ApplyBlob(op, BaseName(part), w.data,
                        files[DstPath(part)].data, DstInfo(part).size,
                        payload.manifest.block_size, NoTool)
         next == NextItem(w.op_idx)
     IN /\ files' = [files EXCEPT ![DstPath(part)] = File(r.content)]
        /\ unit' = [unit EXCEPT
                      !.pos = LastPayloadSeek(r.io, unit.pos),
                      !.worker[part] =
                        IF r.err # NoError
                        THEN [@ EXCEPT !.at = "done", !.err = r.err]
                        ELSE IF HasItem(PartOps(part), next)
                        THEN [@ EXCEPT !.at = "seek", !.op_idx = next,
                                       !.data = <<>>]
                        ELSE [@ EXCEPT !.at = "done", !.op_idx = next,
                                       !.data = <<>>]]
  /\ UNCHANGED <<pc, args, payload, step, op_idx, handles, error, executed,
                 io_log, tmp_files, snap, failed_at>>

\* Both workers have returned or raised; the destinations are closed.
ConcJoin ==
  /\ pc = "ConcRunning"
  /\ \A part \in Parts : unit.worker[part].at = "done"
  /\ pc' = "ConcDone"
  /\ handles' = {}
  /\ UNCHANGED <<args, payload, files, step, op_idx, error, executed, io_log,
                 tmp_files, snap, failed_at, unit>>

ConcNext ==
  \/ \E part \in Parts : ConcSeek(part)
  \/ \E part \in Parts : ConcRead(part)
  \/ \E part \in Parts : ConcApply(part)
  \/ ConcJoin

SpecConc == ConcInit /\ [][ConcNext]_vars

\* _ApplyOperations of one partition run on its own: the destination it leaves
\* and the error it ends with.
RECURSIVE ApplyOperationsAlone(_, _, _, _)
ApplyOperationsAlone(operations, idx, content, part) ==
  IF ~HasItem(operations, idx) THEN [content |-> content, err |-> NoError]
  ELSE CHOOSE res \in
         {IF r.err # NoError THEN [content |-> r.content, err |-> r.err]
          ELSE ApplyOperationsAlone(operations, NextItem(idx),
                                    SubSeq(r.content, 1, Len(r.content)), part) :
            r \in {ApplyOperation(operations[idx], BaseName(part), content,
                                  DstInfo(part).size, payload, NoTool)}} : TRUE

\* C26 as stated: when both workers have ended, each destination and each
\* worker's success or failure are what applying that partition's operations
\* alone, one after the other, gives.
C26_SameAsSequential ==
  pc = "ConcDone" =>
    \A part \in Parts :
      LET alone == ApplyOperationsAlone(PartOps(part), 1,
                     Fill(0, ConcPartBlocks * ConcBlockSize), part)
      IN /\ files[DstPath(part)].data = alone.content
         /\ unit.worker[part].err = alone.err

-----------------------------------------------------------------------------
(* build_artifact.py: BuildArtifact.Process called concurrently *)

StageMaxCallers == 2
StageMaxCalls == 2

\* The threads that call Process, each on a BuildArtifact of its own, all
\* constructed with the same install_dir and name.
StageCallers == 1..StageMaxCallers

\* os.path.join(self.install_dir, self.name): the key of the lock.
StageKey == "install_dir/name"

\* common_util.LockDict.lock: the lock kept for the key, made on first use.
LockDictLock(dict, key) == [dict |-> dict \cup {key}, lock |-> key]

\* The holder of a threading.Lock nobody holds (callers are numbered from 1).
Unlocked == 0

\* Mutant of LockAcquirable: the with statement enters whoever holds the lock.
LockAcquirableAlways(held) == TRUE

\* with self._process_lock: the block is entered when nobody holds the lock.
LockAcquirable(held) == held = Unlocked

\* Mutant of ArtifactStaged: the marker is never found.
ArtifactStagedNever(marker) == FALSE

\* BuildArtifact._ArtifactStaged: the marker file exists in install_dir.
ArtifactStaged(marker) == marker

\* A caller before its first call.
StageCaller == [at |-> "start", process_lock |-> None, calls |-> 0, attempt |-> 0]

\* The install directory with or without the marker of an earlier run; no
\* lock made, nothing downloaded.
StageInit ==
  /\ pc = "StageRunning"
  /\ RunIdle
  /\ \E marker \in BOOLEAN :
       unit = [dict |-> {}, held |-> Unlocked, marker |-> marker,
               downloads |-> 0, stages |-> 0, found |-> 0, attempts |-> <<>>,
               caller |-> [c \in StageCallers |-> StageCaller]]

StageUnchanged ==
  UNCHANGED <<pc, args, payload, files, step, op_idx, handles, error,
              executed, io_log, tmp_files, snap, failed_at>>

\* Process is called; self._process_lock is fetched from the LockDict unless
\* the object has it from an earlier call.
StageGetLock(c) ==
  /\ unit.caller[c].at \in {"start", "done"}
  /\ unit.caller[c].calls < StageMaxCalls
  /\ LET got == LockDictLock(unit.dict, StageKey)
         cached == unit.caller[c].process_lock # None
     IN unit' = [unit EXCEPT
                   !.dict = IF cached THEN @ ELSE got.dict,
                   !.caller[c] = [@ EXCEPT
                      !.at = "acquire",
                      !.calls = @ + 1,
                      !.process_lock = IF cached THEN @ ELSE got.lock]]
  /\ StageUnchanged

\* with self._process_lock: __enter__.
StageAcquire(c) ==
  /\ unit.caller[c].at = "acquire"
  /\ LockAcquirable(unit.held)
  /\ unit' = [unit EXCEPT !.held = c, !.caller[c].at = "check"]
  /\ StageUnchanged

\* MkDirP; if not self._ArtifactStaged(): ... else: log "already staged".
StageCheck(c) ==
  /\ unit.caller[c].at = "check"
  /\ unit' = IF ArtifactStaged(unit.marker)
             THEN [unit EXCEPT !.found = @ + 1, !.caller[c].at = "release"]
             ELSE [unit EXCEPT
                     !.attempts = Append(@, "running"),
                     !.caller[c] = [@ EXCEPT !.at = "wait",
                                             !.attempt = Len(unit.attempts) + 1]]
  /\ StageUnchanged

\* Mutant of StageRaise: the marker is written although the attempt failed.
StageRaiseMarking(u, c) ==
  [u EXCEPT !.attempts[u.caller[c].attempt] = "failed",
            !.marker = TRUE,
            !.caller[c].at = "release"]

\* The attempt of the caller ends with an ArtifactDownloadError or another
\* exception, which leaves the with block.
StageRaise(u, c) ==
  [u EXCEPT !.attempts[u.caller[c].attempt] = "failed",
            !.caller[c].at = "release"]

\* self._WaitForArtifactToExist(timeout): raises when no name or too many
\* names are found.
StageWait(c) ==
  /\ unit.caller[c].at = "wait"
  /\ \E ok \in BOOLEAN :
       unit' = IF ok THEN [unit EXCEPT !.caller[c].at = "download"]
               ELSE StageRaise(unit, c)
  /\ StageUnchanged

\* self._Download(): gsutil_util.DownloadFromGS to the staging directory.
StageDownload(c) ==
  /\ unit.caller[c].at = "download"
  /\ \E ok \in BOOLEAN :
       unit' = IF ok
               THEN [unit EXCEPT !.downloads = @ + 1, !.caller[c].at = "stage"]
               ELSE StageRaise(unit, c)
  /\ StageUnchanged

\* self._Stage(): shutil.move to the install path.
StageStage(c) ==
  /\ unit.caller[c].at = "stage"
  /\ \E ok \in BOOLEAN :
       unit' = IF ok
               THEN [unit EXCEPT !.stages = @ + 1, !.caller[c].at = "mark"]
               ELSE StageRaise(unit, c)
  /\ StageUnchanged

\* self._MarkArtifactStaged(): the marker file is written.
StageMark(c) ==
  /\ unit.caller[c].at = "mark"
  /\ unit' = [unit EXCEPT !.marker = TRUE,
                          !.attempts[unit.caller[c].attempt] = "ok",
                          !.caller[c].at = "release"]
  /\ StageUnchanged

\* with self._process_lock: __exit__, on return and on an exception.
StageRelease(c) ==
  /\ unit.caller[c].at = "release"
  /\ unit' = [unit EXCEPT !.held = IF @ = c THEN Unlocked ELSE @,
                          !.caller[c].at = "done"]
  /\ StageUnchanged

StageNext ==
  \E c \in StageCallers :
    \/ StageGetLock(c)
    \/ StageAcquire(c)
    \/ StageCheck(c)
    \/ StageWait(c)
    \/ StageDownload(c)
    \/ StageStage(c)
    \/ StageMark(c)
    \/ StageRelease(c)

SpecStage == StageInit /\ [][StageNext]_vars

\* The callers inside the with block of Process.
InSection == {c \in StageCallers :
                unit.caller[c].at \in {"check", "wait", "download", "stage",
                                       "mark", "release"}}

\* C29: with LockDict handing every caller the one lock of the key, at most
\* one caller is inside the download-and-stage section at a time; while the
\* first attempt runs and after it succeeded there is no second attempt, the
\* artifact has been downloaded and staged at most once, and after its success
\* exactly once: the later calls found the marker.
C29_StagedOnce ==
  /\ Cardinality(InSection) <= 1
  /\ \A c \in InSection : unit.held = c
  /\ (unit.attempts # <<>> /\ unit.attempts[1] \in {"running", "ok"}) =>
       /\ Len(unit.attempts) = 1
       /\ unit.downloads <= 1 /\ unit.stages <= 1
       /\ unit.attempts[1] = "ok" =>
            unit.downloads = 1 /\ unit.stages = 1 /\ unit.marker

\* Two callers raced for the artifact: one staged it, the other then found
\* the marker, and both have returned.
C29_Witness ==
  /\ unit.attempts = <<"ok">>
  /\ unit.found >= 1
  /\ unit.downloads = 1
  /\ \A c \in StageCallers : unit.caller[c].at = "done"
  /\ \E c \in StageCallers : unit.caller[c].attempt = 0 /\ unit.caller[c].calls = 1

\* The attempts that ended with the marker written.
StageOk == {k \in 1..Len(unit.attempts) : unit.attempts[k] = "ok"}

\* What holds in every state of the calls of Process: an attempt that is not
\* the last one has failed; the marker written by an attempt is written by
\* the last one, which has downloaded and staged; after a failed attempt there
\* is no marker; a caller that has left the with block does not hold the lock.
StageMarkerState ==
  /\ \A k \in 1..Len(unit.attempts) :
       k < Len(unit.attempts) => unit.attempts[k] = "failed"
  /\ unit.attempts # <<>> =>
       (unit.marker <=> unit.attempts[Len(unit.attempts)] = "ok")
  /\ StageOk # {} => unit.downloads >= 1 /\ unit.stages >= 1
  /\ unit.stages <= unit.downloads
  /\ \A c \in StageCallers :
       unit.caller[c].at \in {"start", "acquire", "done"} => unit.held # c

\* What holds of every step: the marker is written by the caller that is past
\* wait, download and stage, and never by a step that raises; with the marker
\* in place nothing is downloaded or staged and the marker stays; a caller
\* that finds no marker begins an attempt, one that finds it begins none.
StageMarkerStep ==
  /\ (~unit.marker /\ unit'.marker) =>
       \E c \in StageCallers :
         /\ unit.caller[c].at = "mark" /\ unit.held = c
         /\ unit'.attempts[unit.caller[c].attempt] = "ok"
         /\ unit.downloads >= 1 /\ unit.stages >= 1
  /\ \A k \in 1..Len(unit.attempts) :
       (unit.attempts[k] = "running" /\ unit'.attempts[k] = "failed") =>
         ~unit'.marker
  /\ unit.marker =>
       /\ unit'.marker
       /\ unit'.downloads = unit.downloads /\ unit'.stages = unit.stages
       /\ unit'.attempts = unit.attempts
  /\ \A c \in StageCallers :
       (unit.caller[c].at = "check" /\ unit'.caller[c].at # "check") =>
         IF unit.marker THEN unit'.caller[c].at = "release"
         ELSE unit'.caller[c].at = "wait" /\ Len(unit'.attempts) = Len(unit.attempts) + 1

\* C37: Process writes the marker only when wait, download and stage of the
\* same call have succeeded; when one of them raises no marker is written, the
\* lock is released and a later call, finding no marker, downloads again;
\* once the marker exists no call downloads or stages.
C37_MarkerAfterSuccess == []StageMarkerState /\ [][StageMarkerStep]_vars

\* C37 witness: a first attempt failed and left no marker, a later call
\* downloaded and staged again and wrote the marker, and a call after that
\* found the marker; all callers have returned and the lock is free.
C37_Witness ==
  /\ Len(unit.attempts) >= 2
  /\ unit.attempts[1] = "failed"
  /\ unit.attempts[Len(unit.attempts)] = "ok"
  /\ unit.marker
  /\ unit.found >= 1
  /\ unit.held = Unlocked
  /\ \A c \in StageCallers : unit.caller[c].at = "done"

-----------------------------------------------------------------------------
(* nebraska.py: Response.AppResponse.__init__ and the AppIndex it asks *)

\* Request.AppRequest.RequestType
INSTALL == 1
UPDATE == 2
NO_OP == 3

ResponseMaxApps == 2

\* A version string as its components up to the second; <<>> is a string
\* that int() rejects.
\* VersionCmp: the difference of the major components, else of the minor ones;
\* a ValueError when a component is missing or no number.
VersionCmp(version_a, version_b) ==
  IF Len(version_a) = 0 \/ Len(version_b) = 0 THEN [err |-> TRUE, val |-> 0]
  ELSE IF version_a[1] # version_b[1]
  THEN [err |-> FALSE, val |-> version_a[1] - version_b[1]]
  ELSE IF Len(version_a) < 2 \/ Len(version_b) < 2 THEN [err |-> TRUE, val |-> 0]
  ELSE [err |-> FALSE, val |-> version_a[2] - version_b[2]]

\* AppData.__init__: src_version is kept for a delta payload only.
AppData(appid, name, version, is_delta, src_version) ==
  [appid |-> appid, name |-> name, version |-> version, is_delta |-> is_delta,
   src_version |-> IF is_delta THEN src_version ELSE <<>>]

\* None where an AppData is expected.
NoAppData == [appid |-> None, name |-> None, version |-> <<>>,
              is_delta |-> FALSE, src_version |-> <<>>]

\* AppData.MatchRequest: a ValueError of VersionCmp is caught and is no match.
MatchRequest(app, request) ==
  IF app.appid # request.appid THEN FALSE
  ELSE IF request.request_type = UPDATE
  THEN LET src == VersionCmp(request.version, app.src_version)
           new == VersionCmp(request.version, app.version)
       IN IF app.is_delta /\ ~request.delta_okay THEN FALSE
          ELSE IF app.is_delta /\ (src.err \/ src.val # 0) THEN FALSE
          ELSE ~new.err /\ new.val < 0
  ELSE IF request.request_type = INSTALL
  THEN LET same == VersionCmp(request.version, app.version)
       IN IF app.is_delta THEN FALSE ELSE ~same.err /\ same.val = 0
  ELSE FALSE

\* reduce(lambda a, b: a if VersionCmp(a.version, b.version) > 0 else b, ...)
RECURSIVE HighestVersion(_, _, _)
HighestVersion(matches, i, a) ==
  IF i > Len(matches) THEN a
  ELSE HighestVersion(matches, i + 1,
                      IF VersionCmp(a.version, matches[i].version).val > 0
                      THEN a ELSE matches[i])

\* AppIndex.Find: of the payloads matching the request those of the highest
\* version, a delta one first if the client accepts deltas; None if none.
Find(index, request) ==
  LET Matches(app) == MatchRequest(app, request)
      matches == SelectSeq(index, Matches)
  IN IF matches = <<>> THEN NoAppData
     ELSE LET max_version == HighestVersion(matches, 2, matches[1]).version
              IsMax(app) == app.version = max_version
              IsDeltaApp(app) == app.is_delta
              highest == SelectSeq(matches, IsMax)
              deltas == SelectSeq(highest, IsDeltaApp)
          IN IF request.delta_okay /\ deltas # <<>> THEN deltas[1]
             ELSE highest[1]

\* AppIndex.Contains: the appid is a key of the index.
Contains(index, request) ==
  \E i \in 1..Len(index) : index[i].appid = request.appid

\* A call of a method of one of the two indexes.
IndexCall(index_name, method) == [index |-> index_name, method |-> method]

\* self._payload_url: payload_addr + path, or None.
PayloadUrl(payload_addr, path) == [addr |-> payload_addr, path |-> path]
NoUrl == PayloadUrl(None, None)

\* Mutant of AppResponse: every request that is no install is looked up in the
\* update index.
AppResponseElseUpdate(app_request, update_index, install_index, payload_addr) ==
  IF app_request.request_type = INSTALL
  THEN LET app_data == Find(install_index, app_request)
       IN [app_data |-> app_data,
           payload_url |-> PayloadUrl(payload_addr, "/install/"),
           err_not_found |-> app_data = NoAppData,
           calls |-> <<IndexCall("install_index", "Find")>>]
  ELSE LET app_data == Find(update_index, app_request)
       IN [app_data |-> app_data,
           payload_url |-> PayloadUrl(payload_addr, "/update/"),
           err_not_found |-> app_data = NoAppData
                             /\ ~Contains(update_index, app_request),
           calls |-> <<IndexCall("update_index", "Find")>> \o
                     (IF app_data = NoAppData
                      THEN <<IndexCall("update_index", "Contains")>> ELSE <<>>)]

\* Mutant of AppResponse: an update request that finds nothing is an error
\* whether the index knows the appid or not.
AppResponseNotFoundAlways(app_request, update_index, install_index, payload_addr) ==
  IF app_request.request_type = INSTALL
  THEN LET app_data == Find(install_index, app_request)
       IN [app_data |-> app_data,
           payload_url |-> PayloadUrl(payload_addr, "/install/"),
           err_not_found |-> app_data = NoAppData,
           calls |-> <<IndexCall("install_index", "Find")>>]
  ELSE IF app_request.request_type = UPDATE
  THEN LET app_data == Find(update_index, app_request)
       IN [app_data |-> app_data,
           payload_url |-> PayloadUrl(payload_addr, "/update/"),
           err_not_found |-> app_data = NoAppData,
           calls |-> <<IndexCall("update_index", "Find")>>]
  ELSE [app_data |-> NoAppData, payload_url |-> NoUrl,
        err_not_found |-> FALSE, calls |-> <<>>]

\* Response.AppResponse.__init__: the fields of the response and the calls it
\* made on the indexes, in order.
AppResponse(app_request, update_index, install_index, payload_addr) ==
  IF app_request.request_type = INSTALL
  THEN LET app_data == Find(install_index, app_request)
       IN [app_data |-> app_data,
           payload_url |-> PayloadUrl(payload_addr, "/install/"),
           err_not_found |-> app_data = NoAppData,
           calls |-> <<IndexCall("install_index", "Find")>>]
  ELSE IF app_request.request_type = UPDATE
  THEN LET app_data == Find(update_index, app_request)
       IN [app_data |-> app_data,
           payload_url |-> PayloadUrl(payload_addr, "/update/"),
           err_not_found |-> app_data = NoAppData
                             /\ ~Contains(update_index, app_request),
           calls |-> <<IndexCall("update_index", "Find")>> \o
                     (IF app_data = NoAppData
                      THEN <<IndexCall("update_index", "Contains")>> ELSE <<>>)]
  ELSE [app_data |-> NoAppData, payload_url |-> NoUrl,
        err_not_found |-> FALSE, calls |-> <<>>]

\* The payloads an index may list: full and delta payloads of two versions of
\* one app, and a payload of another app.
ResponseApps ==
  {AppData("foo", "foo_v1", <<1, 0>>, FALSE, <<>>),
   AppData("foo", "foo_v2", <<2, 0>>, FALSE, <<>>),
   AppData("foo", "foo_v2_delta", <<2, 0>>, TRUE, <<1, 0>>),
   AppData("bar", "bar_v2", <<2, 0>>, FALSE, <<>>)}

\* The app requests: every type, a listed and an unlisted appid, versions
\* with two, one and no usable component, pings.
ResponseRequests ==
  [request_type : {INSTALL, UPDATE, NO_OP}, appid : {"foo", "baz"},
   version : {<<1, 0>>, <<2, 0>>, <<1>>, <<>>}, delta_okay : BOOLEAN,
   ping : BOOLEAN]

ResponseInit ==
  /\ pc = "ResponseReady"
  /\ unit = [in |-> <<>>, out |-> <<>>]
  /\ RunIdle

\* Response.AppResponse(app_request, update_index, install_index, payload_addr)
ResponseCall ==
  /\ pc = "ResponseReady"
  /\ \E app_request \in ResponseRequests :
     \E update_index \in SeqsUpTo(ResponseApps, ResponseMaxApps) :
     \E install_index \in SeqsUpTo(ResponseApps, ResponseMaxApps) :
       unit' = [in |-> [app_request |-> app_request,
                        update_index |-> update_index,
                        install_index |-> install_index],
                out |-> AppResponse(app_request, update_index, install_index,
                                    "http://payloads")]
  /\ pc' = "ResponseDone"
  /\ UNCHANGED <<args, payload, files, step, op_idx, handles, error, executed,
                 io_log, tmp_files, snap, failed_at>>

ResponseNext == ResponseCall

SpecResponse == ResponseInit /\ [][ResponseNext]_vars

\* The number of Find calls made on an index.
FindCalls(calls, index_name) ==
  Len(SelectSeq(calls, LAMBDA c : c = IndexCall(index_name, "Find")))

\* C30: an UPDATE request calls Find once on the update index and never on the
\* install index, an INSTALL request once on the install index and never on
\* the update index; a NO_OP request calls Find on neither and ends with no
\* app data and no not-found error.
C30_OneIndexByType ==
  pc = "ResponseDone" =>
    LET t == unit.in.app_request.request_type
        r == unit.out
    IN /\ t = UPDATE =>
            /\ FindCalls(r.calls, "update_index") = 1
            /\ FindCalls(r.calls, "install_index") = 0
            /\ r.app_data = Find(unit.in.update_index, unit.in.app_request)
       /\ t = INSTALL =>
            /\ FindCalls(r.calls, "install_index") = 1
            /\ FindCalls(r.calls, "update_index") = 0
            /\ r.app_data = Find(unit.in.install_index, unit.in.app_request)
       /\ t = NO_OP =>
            /\ FindCalls(r.calls, "update_index") = 0
            /\ FindCalls(r.calls, "install_index") = 0
            /\ r.app_data = NoAppData
            /\ ~r.err_not_found

\* A ping of an app both indexes list: a NO_OP request that looked nothing up.
C30_Witness ==
  /\ pc = "ResponseDone"
  /\ unit.in.app_request.request_type = NO_OP
  /\ unit.in.app_request.ping
  /\ Contains(unit.in.update_index, unit.in.app_request)
  /\ Contains(unit.in.install_index, unit.in.app_request)
  /\ unit.out.calls = <<>>
  /\ unit.out.app_data = NoAppData

-----------------------------------------------------------------------------
(* nebraska.py: Response.AppResponse.Compile *)

\* XMLResponseTemplates.ERROR_NOT_FOUND
ERROR_NOT_FOUND == "error-unknownApplication"

\* The updatecheck element of an app element: its status and what Compile
\* sets in its urls and manifest; status None when the element is absent.
UpdateCheck(status, codebase, version, run, is_delta) ==
  [status |-> status, codebase |-> codebase, version |-> version, run |-> run,
   IsDeltaPayload |-> is_delta]
NoUpdateCheck == UpdateCheck(None, NoUrl, <<>>, None, "")

\* UPDATE_CHECK_NO_UPDATE
UPDATE_CHECK_NO_UPDATE == UpdateCheck("noupdate", NoUrl, <<>>, None, "")

\* Response.AppResponse.Compile: the app element of the response. The status
\* attribute of APP_TEMPLATE is empty until one of the branches sets it.
Compile(response, app_request) ==
  [appid |-> app_request.appid,
   ping |-> app_request.ping,
   event |-> app_request.event_type # None,
   status |-> IF response.app_data # NoAppData THEN "ok"
              ELSE IF response.err_not_found THEN ERROR_NOT_FOUND
              ELSE IF app_request.request_type = UPDATE THEN "ok"
              ELSE "",
   updatecheck |->
     IF response.app_data # NoAppData
     THEN UpdateCheck("ok", response.payload_url, response.app_data.version,
                      response.app_data.name,
                      IF response.app_data.is_delta THEN "true" ELSE "false")
     ELSE IF response.err_not_found THEN NoUpdateCheck
     ELSE IF app_request.request_type = UPDATE THEN UPDATE_CHECK_NO_UPDATE
     ELSE NoUpdateCheck]

\* The app requests that are compiled: as ResponseRequests, with or without
\* an event.
CompileRequests ==
  [request_type : {INSTALL, UPDATE, NO_OP}, appid : {"foo", "baz"},
   version : {<<1, 0>>, <<2, 0>>, <<>>}, delta_okay : BOOLEAN,
   ping : BOOLEAN, event_type : {None, "1"}]

CompileInit ==
  /\ pc = "CompileReady"
  /\ unit = [in |-> <<>>, out |-> <<>>, xml |-> <<>>]
  /\ RunIdle

\* Response.AppResponse(...).Compile(), as GetXMLString calls it for each app
\* request.
CompileCall ==
  /\ pc = "CompileReady"
  /\ \E app_request \in CompileRequests :
     \E update_index \in SeqsUpTo(ResponseApps, ResponseMaxApps) :
     \E install_index \in SeqsUpTo(ResponseApps, ResponseMaxApps) :
       LET response == AppResponse(app_request, update_index, install_index,
                                   "http://payloads")
       IN unit' = [in |-> [app_request |-> app_request,
                           update_index |-> update_index,
                           install_index |-> install_index],
                   out |-> response,
                   xml |-> Compile(response, app_request)]
  /\ pc' = "CompileDone"
  /\ UNCHANGED <<args, payload, files, step, op_idx, handles, error, executed,
                 io_log, tmp_files, snap, failed_at>>

CompileNext == CompileCall

SpecCompile == CompileInit /\ [][CompileNext]_vars

\* An UPDATE request was compiled for which the update index has no match.
UpdateWithoutMatch ==
  /\ pc = "CompileDone"
  /\ unit.in.app_request.request_type = UPDATE
  /\ Find(unit.in.update_index, unit.in.app_request) = NoAppData

\* C31: for an UPDATE request without a matching payload the response is the
\* not-found error, with no updatecheck, exactly when the update index has no
\* entry of the appid; when it has one, the status is ok and the updatecheck
\* is the noupdate one.
C31_NotFoundOrNoUpdate ==
  UpdateWithoutMatch =>
    LET known == \E i \in 1..Len(unit.in.update_index) :
                   unit.in.update_index[i].appid = unit.in.app_request.appid
    IN /\ (unit.xml.status = ERROR_NOT_FOUND) <=> ~known
       /\ ~known => unit.xml.updatecheck = NoUpdateCheck
       /\ known => /\ unit.xml.status = "ok"
                   /\ unit.xml.updatecheck = UPDATE_CHECK_NO_UPDATE

\* An update request from the newest version of a listed app: no update.
C31_Witness ==
  /\ UpdateWithoutMatch
  /\ unit.in.app_request.appid = "foo"
  /\ unit.in.app_request.version = <<2, 0>>
  /\ Len(unit.in.update_index) = ResponseMaxApps
  /\ unit.xml.updatecheck.status = "noupdate"

-----------------------------------------------------------------------------
(* One operation of any type applied to a partition file *)

\* The source extents of the MOVE operations applied: the first blocks of the
\* file, none to all three.
ApplySources == {<<Extent(0, n)>> : n \in 0..3}

\* What is applied: the operation, its blob, the data it is to write (plain),
\* the file, and what the patch tool does.
ApplyInput(op, blob, plain, content, part_size, block_size, tool) ==
  [op |-> op, blob |-> blob, plain |-> plain, content |-> content,
   part_size |-> part_size, block_size |-> block_size, tool |-> tool]

ApplyReplaceInputs ==
  { ApplyInput(Op(IF enc = "raw" THEN OpReplace ELSE OpReplaceBz, <<>>, dst, 0,
                  Len(ReplaceBlob(enc, ReplaceData(n))), 0, 0),
               ReplaceBlob(enc, ReplaceData(n)), ReplaceData(n),
               ReplaceContent(b), ReplaceBlocks * b, b, NoTool) :
      b \in ReplaceBlockSizes, n \in 0..ReplaceMaxData, enc \in {"raw", "bz"},
      dst \in SeqsUpTo(ReplaceExtents, ReplaceMaxExtents) }

ApplyMoveInputs ==
  { ApplyInput(Op(OpMove, src, dst, 0, 0, 0, 0), <<>>,
               ReadAt(MoveContent(b), 0, src[1].num_blocks * b),
               MoveContent(b), 3 * b, b, NoTool) :
      b \in MoveBlockSizes, src \in ApplySources,
      dst \in SeqsUpTo(MoveExtents, MoveMaxExtents) }

ApplyBsdiffInputs ==
  { ApplyInput(Op(OpBsdiff, <<Extent(0, 1)>>, dst, 0, 1, b, Len(tool.out)),
               <<99>>,
               tool.out \o Fill(0, RoundUp(Len(tool.out), b) - Len(tool.out)),
               MoveContent(b), 3 * b, b, tool) :
      b \in BsdiffBlockSizes, tool \in BsdiffTools,
      dst \in SeqsUpTo(MoveExtents, MoveMaxExtents) }

ApplyInit ==
  /\ pc = "ApplyReady"
  /\ unit = [in |-> <<>>, out |-> <<>>]
  /\ RunIdle

\* The body of the loop of _ApplyOperations for one operation whose blob has
\* been read.
ApplyCall ==
  /\ pc = "ApplyReady"
  /\ \E in \in ApplyReplaceInputs \cup ApplyMoveInputs \cup ApplyBsdiffInputs :
       unit' = [in |-> in,
                out |-> ApplyBlob(in.op, "op", in.blob, in.content,
                                  in.part_size, in.block_size, in.tool)]
  /\ pc' = "ApplyDone"
  /\ UNCHANGED <<args, payload, files, step, op_idx, handles, error, executed,
                 io_log, tmp_files, snap, failed_at>>

ApplyNext == ApplyCall

SpecApply == ApplyInit /\ [][ApplyNext]_vars

\* The file after a sequence of writes.
RECURSIVE ApplyWrites(_, _, _)
ApplyWrites(content, w, k) ==
  IF k > Len(w) THEN content
  ELSE LET written == WriteAt(content, w[k].off, w[k].data)
       IN ApplyWrites(SubSeq(written, 1, Len(written)), w, k + 1)

\* The writes that give each destination extent its slice of the data.
SlicesOf(in) ==
  [m \in 1..Len(in.op.dst_extents) |->
     [off |-> in.op.dst_extents[m].start_block * in.block_size,
      data |-> Slice(in.plain,
                     PrefixCapacity(in.op.dst_extents, m - 1, in.block_size),
                     PrefixCapacity(in.op.dst_extents, m, in.block_size))]]

\* The k-th real extent of a REPLACE fails its checks.
FailsChecks(in, i) ==
  Overruns(in, i) \/ Shortfall(in, i) >= in.block_size

\* C34: a REPLACE/REPLACE_BZ that fails with ExtentOverrun or
\* InsufficientData fails at its first real extent that ends past the
\* partition or lacks a block of data or more, and has by then written every
\* real extent before it with its slice of the data; a MOVE or BSDIFF whose
\* data is longer than its destination extents hold fails with ExtentMismatch
\* after every destination extent was written with its slice. The file then
\* is the file before the operation with these writes made, and differs from
\* it only inside the operation's destination extents.
C34_PartialWrites ==
  pc = "ApplyDone" =>
    LET in == unit.in
        out == unit.out
        b == in.block_size
        exts == in.op.dst_extents
        real == RealIdx(exts)
        w == Writes(out.io)
        k == Len(w) + 1
    IN /\ (in.op.type \in {OpReplace, OpReplaceBz}
           /\ out.err \in {"ExtentOverrun", "InsufficientData"}) =>
            /\ k <= Len(real)
            /\ FailsChecks(in, real[k])
            /\ out.err = IF Overruns(in, real[k]) THEN "ExtentOverrun"
                         ELSE "InsufficientData"
            /\ \A m \in 1..(k - 1) :
                 /\ ~FailsChecks(in, real[m])
                 /\ w[m].off = exts[real[m]].start_block * b
                 /\ w[m].data = PaddedSlice(in, real[m])
       /\ (/\ in.op.type \in {OpMove, OpBsdiff}
           /\ in.tool.rc = 0
           /\ Len(in.plain) > Capacity(exts, b)) =>
            /\ out.err = "ExtentMismatch"
            /\ Len(w) = Len(exts)
            /\ \A m \in 1..Len(w) :
                 /\ w[m].off = exts[m].start_block * b
                 /\ w[m].len = exts[m].num_blocks * b
            /\ out.content = ApplyWrites(in.content, SlicesOf(in), 1)
       /\ (in.op.type \in {OpReplace, OpReplaceBz} /\ out.err # NoError) =>
            out.content = ApplyWrites(in.content, w, 1)
       /\ out.err # NoError => ChangedOnlyIn(in.content, out.content, exts, b)

\* C34 witness: a REPLACE of two real extents that fails at the second for
\* lack of data, the first written and the file changed.
C34_Witness ==
  /\ pc = "ApplyDone"
  /\ unit.in.op.type = OpReplace
  /\ Len(unit.in.op.dst_extents) = 2
  /\ ~IsPseudo(unit.in.op.dst_extents[1])
  /\ unit.out.err = "InsufficientData"
  /\ Len(Writes(unit.out.io)) = 1
  /\ unit.out.content # unit.in.content
  /\ ChangedOnlyIn(unit.in.content, unit.out.content,
                   <<unit.in.op.dst_extents[1]>>, unit.in.block_size)

-----------------------------------------------------------------------------
(* The order of the two partitions in a delta Run *)

\* Run failed at the check of the kernel's source partition.
KernelSourceFailed ==
  FailedIn("source") /\ failed_at[1] = "ApplyingKernel"

\* C35: in a delta Run the kernel's source is checked only when the rootfs
\* destination has been copied from its source, written by all the rootfs
\* operations and verified; a Run that fails with HashMismatch at the kernel's
\* source leaves a rootfs destination that exists with the digest of
\* new_rootfs_info and a kernel destination as it was before Run, no kernel
\* operation executed, and the sources as they were.
C35_KernelSourceAfterRootfs ==
  /\ (pc = "ApplyingKernel" /\ step = "source") =>
       /\ DigestMatches("rootfs")
       /\ Len(ExecutedOf("rootfs")) = Len(PartOps("rootfs"))
       /\ ExecutedOf("kernel") = <<>>
  /\ pc = "ApplyingRoot" =>
       files["dst_kernel"] = InitialFiles(payload.manifest.block_size)["dst_kernel"]
  /\ (KernelSourceFailed /\ error = "HashMismatch") =>
       /\ IsDelta(payload)
       /\ Sha256(files["src_kernel"].data) # payload.manifest.old_kernel_info.hash
       /\ DigestMatches("rootfs")
       /\ files["dst_rootfs"] # InitialFiles(payload.manifest.block_size)["dst_rootfs"]
       /\ Len(ExecutedOf("rootfs")) = Len(PartOps("rootfs"))
       /\ ExecutedOf("kernel") = <<>>
       /\ files["dst_kernel"] = InitialFiles(payload.manifest.block_size)["dst_kernel"]
       /\ \A p \in {"src_rootfs", "src_kernel"} :
            files[p] = InitialFiles(payload.manifest.block_size)[p]
       /\ handles = {}

\* C35 witness: the rootfs was copied, changed by an operation and verified,
\* then the kernel's source did not match old_kernel_info.
C35_Witness ==
  /\ KernelSourceFailed /\ error = "HashMismatch"
  /\ files["dst_rootfs"].exists
  /\ files["dst_rootfs"].data # files["src_rootfs"].data
  /\ Len(ExecutedOf("rootfs")) >= 1
  /\ ~files["dst_kernel"].exists

-----------------------------------------------------------------------------
(* Run invoked again on the destinations an earlier Run left *)

\* The files before the first Run: the sources, and no destination yet.
FreshFiles ==
  [p \in Paths |->
     IF p \in {"src_rootfs", "src_kernel"}
     THEN File(OpsSrcImage(payload.manifest.block_size)) ELSE NoFile]

\* _ApplyToPartition from its entry to its return or its exception: the files
\* it leaves and the error it ends with.
PartitionAlone(part, fs) ==
  LET src == SrcPath(part)
      dst == DstPath(part)
      src_err == IF ~Given(src) THEN NoError
                 ELSE IF ~fs[src].exists THEN "IOError"
                 ELSE VerifySha256(fs[src].data, SrcInfo(part).hash, -1)
  IN IF src_err # NoError THEN [files |-> fs, err |-> src_err]
     ELSE LET prepared == IF Given(src) THEN CopyFile(fs, src, dst)
                          ELSE [fs EXCEPT ![dst] = Fallocate(@, DstInfo(part).size)]
          IN CHOOSE res \in
               {[files |-> [prepared EXCEPT ![dst] = File(r.content)],
                 err |-> IF r.err # NoError THEN r.err
                         ELSE VerifySha256(r.content, DstInfo(part).hash, -1)] :
                  r \in {ApplyOperationsAlone(PartOps(part), 1,
                                              prepared[dst].data, part)}} : TRUE

\* Run from its entry to its return or its exception.
RunAlone(fs) ==
  IF ValidateArgs(args, payload) # NoError
  THEN [files |-> fs, err |-> ValidateArgs(args, payload)]
  ELSE CHOOSE res \in
         {IF r.err # NoError THEN r ELSE PartitionAlone("kernel", r.files) :
            r \in {PartitionAlone("rootfs", fs)}} : TRUE

\* The payloads of the second Run: those whose operations run no external
\* tool, so that both runs are given the same inputs.
RerunPayloads ==
  {p \in OpsPayloads :
     \A i \in 1..Len(p.manifest.install_operations) :
       p.manifest.install_operations[i].type # OpBsdiff}

\* Run is invoked with the payload, sources and destination paths of an
\* earlier Run, on the files that Run left.
RerunInit ==
  /\ pc = "Idle"
  /\ payload \in RerunPayloads
  /\ args = OpsArgs(payload.kind)
  /\ \E first \in {RunAlone(FreshFiles)} : files = first.files
  /\ step = "none"
  /\ op_idx = 0
  /\ handles = {}
  /\ error = NoError
  /\ executed = <<>>
  /\ io_log = <<>>
  /\ tmp_files = {}
  /\ snap = [prepared |-> <<>>]
  /\ failed_at = <<>>
  /\ unit = [tool |-> NoTool]

SpecRerun == RerunInit /\ [][Next]_vars

\* C36 as stated: a Run invoked again after a failed or a successful Run ends
\* with the outcome and the destination contents of the Run on fresh
\* destinations.
C36_Repeatable ==
  pc \in {"Done", "Failed"} =>
    \A first \in {RunAlone(FreshFiles)} :
      /\ error = first.err
      /\ \A part \in Parts : files[DstPath(part)] = first.files[DstPath(part)]

\* RunAlone is what the steps of Run compute: on fresh destinations a Run
\* ends with its files and its error.
RunAloneIsRun ==
  (pc \in {"Done", "Failed"} /\ payload \in RerunPayloads) =>
    \A first \in {RunAlone(FreshFiles)} :
      error = first.err /\ files = first.files

-----------------------------------------------------------------------------
(* build_artifact.py: DeltaPayloadsArtifact.Process and its sub-artifacts *)

\* self._sub_artifacts: the payloads from other builds, then those of this one.
SubArtifacts == <<"mton", "nton">>

SubNames == {SubArtifacts[i] : i \in DOMAIN SubArtifacts}

\* How artifact.Process(no_wait=True) of a sub-artifact may end: it finds its
\* marker; it waits, downloads, stages and marks; _WaitForArtifactToExist
\* raises ArtifactDownloadError; the download or the move raises another
\* exception.
SubOutcomes(staged) ==
  IF ArtifactStaged(staged) THEN {"staged"}
  ELSE {"ok", "ArtifactDownloadError", "OtherError"}

\* One call of Process(no_wait) of a DeltaPayloadsArtifact, in an install
\* directory earlier calls may have used: with or without its marker, each
\* sub-artifact staged or not, and the symlink of a staged one made or not.
DeltaInit ==
  /\ pc = "DeltaRunning"
  /\ RunIdle
  /\ \E marker \in BOOLEAN, staged \in [SubNames -> BOOLEAN], no_wait \in BOOLEAN :
       \E links \in SUBSET {n \in SubNames : staged[n]} :
         unit = [at |-> "check", idx |-> 1, marker |-> marker,
                 no_wait |-> no_wait, timeout |-> 0,
                 sub_marker |-> staged, symlinks |-> links,
                 sub |-> [n \in SubNames |-> "none"], raised |-> NoError]

\* Process: if not self._ArtifactStaged(): ... else: log "already staged".
DeltaCheck ==
  /\ unit.at = "check"
  /\ unit' = [unit EXCEPT !.at = IF ArtifactStaged(unit.marker)
                                 THEN "done" ELSE "wait"]
  /\ StageUnchanged

\* Process: timeout = 1 if no_wait else 10;
\* self._WaitForArtifactToExist(timeout), with single_name False, then
\* self._Download(), which does nothing for this artifact.
DeltaWait ==
  /\ unit.at = "wait"
  /\ \E names \in BOOLEAN :
       LET timeout == IF unit.no_wait THEN 1 ELSE 10 IN
         unit' = IF names THEN [unit EXCEPT !.at = "stage", !.timeout = timeout]
                 ELSE [unit EXCEPT !.at = "raised", !.timeout = timeout,
                                   !.raised = "ArtifactDownloadError"]
  /\ StageUnchanged

\* _Stage: one turn of the loop over self._sub_artifacts. Process of the
\* sub-artifact, then the symlink; an ArtifactDownloadError is logged and the
\* loop goes on, any other exception leaves _Stage and Process.
DeltaSubProcess ==
  /\ unit.at = "stage" /\ unit.idx <= Len(SubArtifacts)
  /\ LET n == SubArtifacts[unit.idx] IN
       \E outcome \in SubOutcomes(unit.sub_marker[n]) :
         unit' =
           IF outcome = "ArtifactDownloadError"
           THEN [unit EXCEPT !.sub[n] = outcome, !.idx = @ + 1]
           ELSE IF outcome = "OtherError"
           THEN [unit EXCEPT !.sub[n] = outcome, !.at = "raised",
                             !.raised = outcome]
           ELSE IF n \in unit.symlinks
           THEN [unit EXCEPT !.sub[n] = outcome, !.sub_marker[n] = TRUE,
                             !.at = "raised", !.raised = "OSError"]
           ELSE [unit EXCEPT !.sub[n] = outcome, !.sub_marker[n] = TRUE,
                             !.symlinks = @ \cup {n}, !.idx = @ + 1]
  /\ StageUnchanged

\* _Stage returns when the loop is over; Process: self._MarkArtifactStaged().
DeltaMark ==
  /\ unit.at = "stage" /\ unit.idx > Len(SubArtifacts)
  /\ unit' = [unit EXCEPT !.marker = TRUE, !.at = "done"]
  /\ StageUnchanged

DeltaNext ==
  \/ DeltaCheck
  \/ DeltaWait
  \/ DeltaSubProcess
  \/ DeltaMark

SpecDelta == DeltaInit /\ [][DeltaNext]_vars

\* C38 as stated: when Process of every sub-artifact raised
\* ArtifactDownloadError, staging fails: Process does not return normally and
\* the delta-payloads artifact is not marked as staged.
C38_ErrorsWhenNoneFound ==
  (\A n \in SubNames : unit.sub[n] = "ArtifactDownloadError") =>
    /\ unit.at # "done"
    /\ ~unit.marker

-----------------------------------------------------------------------------
(* nebraska.py: AppIndex.Find on versions of three components *)

FindMaxApps == 2

\* The payloads of the index: versions as the metadata gives them, of which
\* VersionCmp reads the first two components; full payloads of 1.0.0, 2.0.0
\* and 2.0.1, a delta from 1.0.0 to 2.0.0, and a payload of another app.
FindApps ==
  {AppData("foo", "foo_v1", <<1, 0, 0>>, FALSE, <<>>),
   AppData("foo", "foo_v2", <<2, 0, 0>>, FALSE, <<>>),
   AppData("foo", "foo_v2_delta", <<2, 0, 0>>, TRUE, <<1, 0, 0>>),
   AppData("foo", "foo_v2_1", <<2, 0, 1>>, FALSE, <<>>),
   AppData("bar", "bar_v2", <<2, 0, 0>>, FALSE, <<>>)}

FindRequests ==
  [request_type : {INSTALL, UPDATE, NO_OP}, appid : {"foo", "baz"},
   version : {<<1, 0, 0>>, <<2, 0, 0>>}, delta_okay : BOOLEAN]

FindInit ==
  /\ pc = "FindReady"
  /\ unit = [in |-> <<>>, out |-> <<>>]
  /\ RunIdle

\* AppIndex.Find(request) on an index as Scan built it.
FindCall ==
  /\ pc = "FindReady"
  /\ \E request \in FindRequests :
     \E index \in SeqsUpTo(FindApps, FindMaxApps) :
       unit' = [in |-> [request |-> request, index |-> index],
                out |-> Find(index, request)]
  /\ pc' = "FindDone"
  /\ UNCHANGED <<args, payload, files, step, op_idx, handles, error, executed,
                 io_log, tmp_files, snap, failed_at>>

FindNext == FindCall

SpecFind == FindInit /\ [][FindNext]_vars

\* The places of the index whose payload matches the request.
FindMatches == {i \in 1..Len(unit.in.index) :
                  MatchRequest(unit.in.index[i], unit.in.request)}

\* C39 as stated: Find returns None when no payload of the index matches the
\* request; otherwise it returns a matching payload than which no match has a
\* higher major.minor version, and a delta one whenever the request accepts
\* deltas and a matching delta has that major.minor version.
C39_FindHighestPreferDelta ==
  pc = "FindDone" =>
    /\ FindMatches = {} => unit.out = NoAppData
    /\ FindMatches # {} =>
         /\ \E i \in FindMatches : unit.out = unit.in.index[i]
         /\ \A j \in FindMatches :
              VersionCmp(unit.out.version, unit.in.index[j].version).val >= 0
         /\ (/\ unit.in.request.delta_okay
             /\ \E j \in FindMatches :
                  /\ unit.in.index[j].is_delta
                  /\ VersionCmp(unit.in.index[j].version, unit.out.version).val = 0)
              => unit.out.is_delta

\* What Find does do: the delta is preferred among the matches whose version
\* is, component for component, the version of the last match of the highest
\* major.minor version.
FindPrefersDeltaOfSameString ==
  pc = "FindDone" =>
    /\ FindMatches = {} => unit.out = NoAppData
    /\ FindMatches # {} =>
         /\ \E i \in FindMatches : unit.out = unit.in.index[i]
         /\ \A j \in FindMatches :
              VersionCmp(unit.out.version, unit.in.index[j].version).val >= 0
         /\ (/\ unit.in.request.delta_okay
             /\ \E j \in FindMatches :
                  /\ unit.in.index[j].is_delta
                  /\ unit.in.index[j].version = unit.out.version)
              => unit.out.is_delta

====
